---- MODULE Spec2Model ----
(***************************************************************************)
(* Model of the feed-ingestion and analysis pipeline of                    *)
(* django-podcast-analyzer (src/src/podcast_analyzer/models.py, tasks.py,  *)
(* views.py, forms.py).                                                    *)
(*                                                                         *)
(* A database table is a set of rows.  Primary keys are random UUIDs      *)
(* (UUIDTimeStampedModel.id), so a table has no order; the model names the *)
(* n-th row created with a given natural key <<key fields, n>>, which      *)
(* keeps rows with equal keys apart.  Python's None is the string "None";  *)
(* a null foreign key is the empty tuple.                                  *)
(***************************************************************************)
EXTENDS Integers, Sequences, FiniteSets, TLC

VARIABLES
    episodes,       \* table Episode
    seasons,        \* table Season
    persons,        \* table Person
    donation,       \* Podcast.feed_contains_structured_donation_data, per podcast
    feed,           \* the "episodes" list of the parsed feed, as currently served
    enclosed,       \* history: the (podcast, guid) reconciled from an item with an enclosure
    last,           \* history: the last step taken, the call's arguments and its result
    release_datetimes,  \* Episode.release_datetime of the episodes of one podcast:
                        \* how many episodes were released at each instant
    release_frequency,  \* Podcast.release_frequency of that podcast
    dormant,            \* Podcast.dormant
    title,              \* Podcast.title
    schedules,          \* table django_q Schedule
    now,                \* timezone.now(), in days
    called,             \* history: the last analysis or scheduling call and its result
    generator,          \* Podcast.generator
    probable_feed_host, \* Podcast.probable_feed_host
    feed_contains_tracking_data,    \* Podcast.feed_contains_tracking_data
    download_urls,      \* Episode.download_url of the podcast's episodes, in the
                        \* order of Episode.Meta.ordering (most recent first)
    podcast_cover_art_url,              \* Podcast.podcast_cover_art_url
    podcast_art_cache_update_needed,    \* Podcast.podcast_art_cache_update_needed
    podcast_cached_cover_art,           \* Podcast.podcast_cached_cover_art
    art_updates,        \* table ArtUpdate
    rss_feed,           \* Podcast.rss_feed, per podcast (unique)
    last_checked,       \* Podcast.last_checked
    tasks,              \* the tasks handed to async_task, oldest first
    group_podcasts,     \* AnalysisGroup.podcasts of one group
    group_seasons,      \* AnalysisGroup.seasons
    group_episodes,     \* AnalysisGroup.episodes
    podcast_table,      \* table Podcast: the podcasts that exist
    group_table,        \* table AnalysisGroup: the names of the groups that exist
    jobs,               \* the tasks of the cluster, each with the pickled Podcast
                        \* instance it was handed
    pipelines,          \* per podcast, where its pipeline stands inside a
                        \* get_or_create on a shared table
    feed_contains_itunes_data,          \* Podcast.feed_contains_itunes_data
    feed_contains_podcast_index_data,   \* Podcast.feed_contains_podcast_index_data
    itunes_categories,  \* Podcast.itunes_categories, per podcast
    categories          \* table ItunesCategory

reconVars == <<episodes, seasons, persons, donation, feed, enclosed, last>>

analysisVars ==
    <<release_datetimes, release_frequency, dormant, title, schedules, now, called>>

hostVars ==
    <<generator, probable_feed_host, feed_contains_tracking_data, download_urls>>

artVars ==
    <<podcast_cover_art_url, podcast_art_cache_update_needed,
      podcast_cached_cover_art, art_updates>>

fetchVars == <<rss_feed, last_checked, tasks>>

groupVars == <<group_podcasts, group_seasons, group_episodes>>

itunesVars ==
    <<feed_contains_itunes_data, feed_contains_podcast_index_data,
      itunes_categories, categories>>

siteVars == <<podcast_table, group_table, jobs, pipelines>>

podcastVars == <<hostVars, artVars, fetchVars, groupVars, siteVars, itunesVars>>

\* analysisVars without the history variable
analysisRest ==
    <<release_datetimes, release_frequency, dormant, title, schedules, now>>

vars == <<reconVars, analysisVars, podcastVars>>

None == "None"

NullId == <<>>

Podcasts == {"p1", "p2"}

(***************************************************************************)
(* Feed items, as podcastparser hands them over.  enclosures is the list   *)
(* of enclosures (here their urls), persons the list of podcast:person     *)
(* entries; a role of None is an entry without the "role" key.             *)
(***************************************************************************)
PersonEntry(n, h, i, r) == [name |-> n, href |-> h, img |-> i, role |-> r]

Item(g, e, t, s, ps, pay) ==
    [guid |-> g, enclosures |-> e, title |-> t, season |-> s,
     persons |-> ps, payment_url |-> pay]

FeedItems ==
    { Item("g1", <<"u1">>, "t1", None,
           <<PersonEntry("alice", None, None, None)>>, None),
      Item("g1", <<"u2">>, "t2", "s1",
           <<PersonEntry("alice", "href1", "img1", "guest")>>, None),
      Item("g2", <<"u1">>, "t1", "s1",
           <<PersonEntry("alice", None, "img2", "host"),
             PersonEntry("bob", None, None, "producer")>>, "pay1"),
      Item("g2", <<>>, "t2", "s2",
           <<PersonEntry("carol", None, "img1", "host")>>, None),
      Item("g3", <<>>, "t1", "s1",
           <<PersonEntry("alice", "href2", None, "guest")>>, "pay1") }

\* Longest feed item list handed to one reconciliation call.
MaxItems == 2

(***************************************************************************)
(* Episode.create_or_update_episode_from_feed                              *)
(***************************************************************************)
\* Mutant: objects.create in place of get_or_create, no row is ever found.
EpisodeMatches_create(eps, podcast, guid) == {}

\* Model.objects.get_or_create: the rows matching the lookup.
EpisodeMatches(eps, podcast, guid) ==
    {e \in eps : e.podcast = podcast /\ e.guid = guid}

\* Mutant: the lookup leaves the podcast out.
SeasonMatches_number(ss, podcast, number) ==
    {s \in ss : s.season_number = number}

\* Season.objects.get_or_create(podcast=, season_number=)
SeasonMatches(ss, podcast, number) ==
    {s \in ss : s.podcast = podcast /\ s.season_number = number}

\* Mutant: the lookup leaves the url out.
PersonMatches_name(ps, name, url) ==
    {p \in ps : p.name = name}

PersonMatches(ps, name, url) ==
    {p \in ps : p.name = name /\ p.url = url}

\* A row as Episode.objects.create(podcast=, guid=) leaves it: field defaults.
NewEpisode(eps, podcast, guid) ==
    [id |-> <<podcast, guid, Cardinality(EpisodeMatches(eps, podcast, guid)) + 1>>,
     podcast |-> podcast, guid |-> guid, title |-> None, download_url |-> None,
     season |-> NullId, hosts |-> {}, guests |-> {}]

NewSeason(ss, podcast, number) ==
    [id |-> <<podcast, number, Cardinality(SeasonMatches(ss, podcast, number)) + 1>>,
     podcast |-> podcast, season_number |-> number]

NewPerson(ps, name, url) ==
    [id |-> <<name, url, Cardinality(PersonMatches(ps, name, url)) + 1>>,
     name |-> name, url |-> url, img_url |-> None, merged_into |-> NullId]

\* Mutant: only a missing "enclosures" key is skipped, an empty list is not.
HasNoEnclosure_key(episode_dict) == FALSE

\* len(episode_dict.get("enclosures", [])) == 0
HasNoEnclosure(episode_dict) == Len(episode_dict.enclosures) = 0

\* Mutant: the fields are written whether or not the row is new.
WritesFields_always(update_existing_episodes, created) == TRUE

\* if update_existing_episodes or created:
WritesFields(update_existing_episodes, created) ==
    update_existing_episodes \/ created

\* Mutant: the image of the latest sighting is kept.
ImgUrlAfter_latest(img_url, img) == IF img # None THEN img ELSE img_url

\* if persona.img_url is None and img is not None: persona.img_url = img
ImgUrlAfter(img_url, img) == IF img_url = None /\ img # None THEN img ELSE img_url

\* The loop over episode_dict["persons"].  acc carries the Person table, the
\* two many-to-many sets of the episode (.add() writes them through at once)
\* and whether get_or_create raised MultipleObjectsReturned.
RECURSIVE AttachPeople(_, _)
AttachPeople(acc, people) ==
    IF people = <<>> \/ acc.raised THEN acc
    ELSE LET person == Head(people)
             role   == IF person.role = None THEN "host" ELSE person.role
         IN  IF role \notin {"host", "guest"}
             THEN AttachPeople(acc, Tail(people))
             ELSE LET m == PersonMatches(acc.persons, person.name, person.href)
                  IN  IF Cardinality(m) > 1
                      THEN [acc EXCEPT !.raised = TRUE]
                      ELSE LET created == (m = {})
                               got == IF created
                                      THEN NewPerson(acc.persons, person.name,
                                                     person.href)
                                      ELSE CHOOSE p \in m : TRUE
                               persona ==
                                   [got EXCEPT !.img_url =
                                       ImgUrlAfter(got.img_url, person.img)]
                           IN  AttachPeople(
                                 [persons |-> (acc.persons \ {got}) \cup {persona},
                                  hosts   |-> IF role = "guest" THEN acc.hosts
                                              ELSE acc.hosts \cup {persona.id},
                                  guests  |-> IF role = "guest"
                                              THEN acc.guests \cup {persona.id}
                                              ELSE acc.guests,
                                  raised  |-> FALSE],
                                 Tail(people))

\* db is [episodes, seasons, persons, ...]; the result holds the three tables,
\* edits_made (the returned bool) and raised (an exception left the method).
create_or_update_episode_from_feed(db, podcast, episode_dict, update_existing_episodes) ==
    LET out(e, s, p, made, r) ==
            [episodes |-> e, seasons |-> s, persons |-> p,
             edits_made |-> made, raised |-> r]
    IN
    IF HasNoEnclosure(episode_dict)
    THEN out(db.episodes, db.seasons, db.persons, FALSE, FALSE)
    ELSE
    LET m == EpisodeMatches(db.episodes, podcast, episode_dict.guid) IN
    IF Cardinality(m) > 1
    THEN out(db.episodes, db.seasons, db.persons, FALSE, TRUE)
    ELSE
    LET created == (m = {})
        ep   == IF created
                THEN NewEpisode(db.episodes, podcast, episode_dict.guid)
                ELSE CHOOSE e \in m : TRUE
        eps1 == db.episodes \cup {ep}
    IN
    IF ~WritesFields(update_existing_episodes, created)
    THEN out(eps1, db.seasons, db.persons, FALSE, FALSE)
    ELSE
    \* enclosure = episode_dict["enclosures"][0] raises IndexError on an empty list
    IF Len(episode_dict.enclosures) = 0
    THEN out(eps1, db.seasons, db.persons, FALSE, TRUE)
    ELSE
    LET sm == SeasonMatches(db.seasons, podcast, episode_dict.season) IN
    IF episode_dict.season # None /\ Cardinality(sm) > 1
    THEN out(eps1, db.seasons, db.persons, FALSE, TRUE)
    ELSE
    LET season == IF episode_dict.season = None THEN None
                  ELSE IF sm = {}
                       THEN NewSeason(db.seasons, podcast, episode_dict.season)
                       ELSE CHOOSE s \in sm : TRUE
        ss1 == IF episode_dict.season = None THEN db.seasons
               ELSE db.seasons \cup {season}
        ppl == AttachPeople([persons |-> db.persons, hosts |-> ep.hosts,
                             guests |-> ep.guests, raised |-> FALSE],
                            episode_dict.persons)
        \* the many-to-many rows are already written when the loop raises
        m2m == [ep EXCEPT !.hosts = ppl.hosts, !.guests = ppl.guests]
        saved == [m2m EXCEPT !.title = episode_dict.title,
                             !.download_url = episode_dict.enclosures[1],
                             !.season = IF episode_dict.season = None
                                        THEN ep.season ELSE season.id]
    IN
    IF ppl.raised
    THEN out((eps1 \ {ep}) \cup {m2m}, ss1, ppl.persons, FALSE, TRUE)
    ELSE out((eps1 \ {ep}) \cup {saved}, ss1, ppl.persons, TRUE, FALSE)

(***************************************************************************)
(* Podcast.update_episodes_from_feed_data                                  *)
(***************************************************************************)
\* acc is [episodes, seasons, persons, donation, num_eps_touched, raised],
\* donation being this podcast's feed_contains_structured_donation_data.
\* Mutant: every item of the list counts.
Touched_all(num_eps_touched, edits_made) == num_eps_touched + 1

\* if edits_made: num_eps_touched += 1
Touched(num_eps_touched, edits_made) ==
    IF edits_made THEN num_eps_touched + 1 ELSE num_eps_touched

RECURSIVE update_episodes_loop(_, _, _, _)
update_episodes_loop(acc, podcast, episode_list, update_existing_episodes) ==
    IF episode_list = <<>> \/ acc.raised THEN acc
    ELSE LET episode == Head(episode_list)
             r == create_or_update_episode_from_feed(
                      acc, podcast, episode, update_existing_episodes)
         IN  update_episodes_loop(
                 [episodes |-> r.episodes, seasons |-> r.seasons,
                  persons |-> r.persons,
                  donation |-> acc.donation \/ episode.payment_url # None,
                  num_eps_touched |-> Touched(acc.num_eps_touched, r.edits_made),
                  raised |-> r.raised],
                 podcast, Tail(episode_list), update_existing_episodes)

update_episodes_from_feed_data(podcast, episode_list, update_existing_episodes) ==
    LET r == update_episodes_loop(
                 [episodes |-> episodes, seasons |-> seasons, persons |-> persons,
                  donation |-> donation[podcast], num_eps_touched |-> 0,
                  raised |-> FALSE],
                 podcast, episode_list, update_existing_episodes)
    IN  /\ episodes' = r.episodes
        /\ seasons' = r.seasons
        /\ persons' = r.persons
        /\ donation' = [donation EXCEPT ![podcast] = r.donation]
        /\ enclosed' = enclosed \cup
                {<<podcast, episode_list[i].guid>> :
                    i \in {j \in DOMAIN episode_list :
                              Len(episode_list[j].enclosures) > 0}}
        /\ last' = [op |-> "update_episodes_from_feed_data", podcast |-> podcast,
                    update_existing_episodes |-> update_existing_episodes,
                    ret |-> r.num_eps_touched, raised |-> r.raised,
                    \* the step before was the same call, on the same list
                    again |-> /\ last.op = "update_episodes_from_feed_data"
                              /\ last.podcast = podcast
                              /\ last.update_existing_episodes
                                     = update_existing_episodes]

(***************************************************************************)
(* Time is counted in days.  Release instants come from integer epoch      *)
(* seconds (episode_dict["published"]), so the int() of                    *)
(* calculate_median_release_difference truncates nothing; the thresholds   *)
(* and intervals of the code are whole days.                               *)
(***************************************************************************)
\* The instants at which the modelled episodes are released.
RelTimes == {0, 2, 5, 7, 13, 14, 21, 28, 61, 95}

\* Most episodes of the analysed podcast.
MaxEpisodes == 6

\* The refresh specification: the release instants of its episodes, the most
\* episodes it holds, and the instants at which its calls are made.
RefreshReleases == {0, 2}

MaxRefreshEpisodes == 1

Instants == {0, 20, 21, 65, 66}

NoEpisodes == [t \in RelTimes |-> 0]

\* episodes.acount()
RECURSIVE CountFrom(_, _)
CountFrom(bag, S) ==
    IF S = {} THEN 0
    ELSE LET t == CHOOSE x \in S : TRUE
         IN  bag[t] + CountFrom(bag, S \ {t})

acount(bag) == CountFrom(bag, DOMAIN bag)

\* n copies of x
RECURSIVE Copies(_, _)
Copies(x, n) == IF n = 0 THEN <<>> ELSE <<x>> \o Copies(x, n - 1)

\* episodes.order_by("release_datetime"): the release instants, ascending.
RECURSIVE order_by_release_datetime(_, _)
order_by_release_datetime(bag, S) ==
    IF S = {} THEN <<>>
    ELSE LET t == CHOOSE x \in S : \A y \in S : x <= y
         IN  Copies(t, bag[t]) \o order_by_release_datetime(bag, S \ {t})

\* The loop of calculate_median_release_difference: consecutive differences.
release_deltas(release_dates) ==
    [i \in 1..(Len(release_dates) - 1) |-> release_dates[i + 1] - release_dates[i]]

\* sorted(data), by insertion
RECURSIVE Insert(_, _)
Insert(x, sorted) ==
    IF sorted = <<>> THEN <<x>>
    ELSE IF x <= Head(sorted) THEN <<x>> \o sorted
         ELSE <<Head(sorted)>> \o Insert(x, Tail(sorted))

RECURSIVE Sorted(_)
Sorted(data) == IF data = <<>> THEN <<>> ELSE Insert(Head(data), Sorted(Tail(data)))

\* statistics.median_high: data[n // 2] of the sorted data (0-based).
median_high(data) == Sorted(data)[(Len(data) \div 2) + 1]

calculate_median_release_difference(bag) ==
    median_high(release_deltas(order_by_release_datetime(bag, DOMAIN bag)))

\* The fewest episodes set_release_frequency classifies.
MinEpisodes == 5

DailyMax == 2
OftenMax == 5
WeeklyMax == 8
BiweeklyMax == 15
MonthlyMax == 33

\* Mutant: the comparisons are strict.
Bucket_strict(median_release_diff) ==
    IF median_release_diff < DailyMax THEN "daily"
    ELSE IF median_release_diff < OftenMax THEN "often"
    ELSE IF median_release_diff < WeeklyMax THEN "weekly"
    ELSE IF median_release_diff < BiweeklyMax THEN "biweekly"
    ELSE IF median_release_diff < MonthlyMax THEN "monthly"
    ELSE "adhoc"

\* The if/elif chain of set_release_frequency.
Bucket(median_release_diff) ==
    IF median_release_diff <= DailyMax THEN "daily"
    ELSE IF median_release_diff <= OftenMax THEN "often"
    ELSE IF median_release_diff <= WeeklyMax THEN "weekly"
    ELSE IF median_release_diff <= BiweeklyMax THEN "biweekly"
    ELSE IF median_release_diff <= MonthlyMax THEN "monthly"
    ELSE "adhoc"

\* An optional datetime is <<>> for None and <<t>> for the instant t.
Called(op) == [op |-> op, arg |-> <<>>, ret |-> <<>>, raised |-> FALSE]

(***************************************************************************)
(* Podcast.set_release_frequency, on the window of all the episodes        *)
(***************************************************************************)
ReleaseFrequencyOf(bag) ==
    IF acount(bag) < MinEpisodes THEN "pending"
    ELSE Bucket(calculate_median_release_difference(bag))

set_release_frequency ==
    /\ release_frequency' = ReleaseFrequencyOf(release_datetimes)
    /\ called' = Called("set_release_frequency")
    /\ UNCHANGED <<release_datetimes, dormant, title, schedules, now>>
    /\ UNCHANGED <<reconVars, podcastVars>>

\* The URL of the episodes whose URL no analysis is about.
PlainUrl == <<"https://example.org/ep.mp3">>

\* The number of episodes released after t: they come before an episode
\* released at t in the order of Episode.Meta.ordering.
Newer(bag, t) == CountFrom(bag, {u \in DOMAIN bag : u > t})

InsertAt(seq, k, x) == SubSeq(seq, 1, k) \o <<x>> \o SubSeq(seq, k + 1, Len(seq))

RemoveAt(seq, k) == SubSeq(seq, 1, k - 1) \o SubSeq(seq, k + 1, Len(seq))

\* Reconciliation stores an episode released at t (its "published" value)
\* with the download URL url (its first enclosure's).  Among episodes
\* released at the same instant the database's order is any.
EpisodeReleasedWithin(times, urls, most) ==
    /\ acount(release_datetimes) < most
    /\ \E t \in times, url \in urls :
          /\ release_datetimes' = [release_datetimes EXCEPT ![t] = @ + 1]
          /\ \E k \in Newer(release_datetimes, t) ..
                        (Newer(release_datetimes, t) + release_datetimes[t]) :
                download_urls' = InsertAt(download_urls, k, url)
    /\ called' = Called("episode")
    /\ UNCHANGED <<release_frequency, dormant, title, schedules, now>>
    /\ UNCHANGED <<generator, probable_feed_host, feed_contains_tracking_data>>
    /\ UNCHANGED <<reconVars, artVars, fetchVars, groupVars, siteVars, itunesVars>>

EpisodeReleased == EpisodeReleasedWithin(RelTimes, {PlainUrl}, MaxEpisodes)

(***************************************************************************)
(* Podcast.last_release_date and episodes.alatest("release_datetime")      *)
(***************************************************************************)
last_release_date(bag) ==
    LET used == {t \in DOMAIN bag : bag[t] > 0}
    IN  IF used = {} THEN <<>>
        ELSE <<CHOOSE t \in used : \A u \in used : u <= t>>

(***************************************************************************)
(* Podcast.set_dormant                                                     *)
(***************************************************************************)
DormantDays == 65

\* Mutant: 65 days old is dormant already.
IsDormant_atleast(age) == age >= DormantDays

\* timezone.now() - latest_ep.release_datetime > datetime.timedelta(days=65)
IsDormant(age) == age > DormantDays

DormantOf(bag, was_dormant, clock) ==
    LET latest_ep == last_release_date(bag)
    IN  IF latest_ep = <<>> THEN was_dormant
        ELSE IsDormant(clock - latest_ep[1])

set_dormant ==
    /\ dormant' = DormantOf(release_datetimes, dormant, now)
    /\ called' = Called("set_dormant")
    /\ UNCHANGED <<release_datetimes, release_frequency, title, schedules, now>>
    /\ UNCHANGED <<reconVars, podcastVars>>

(***************************************************************************)
(* Podcast.calculate_next_refresh_time                                     *)
(***************************************************************************)
DailyDays == 1
OftenDays == 3
WeeklyDays == 7
BiweeklyDays == 14
MonthlyDays == 30
AdhocDays == 60
DormantInterval == 60

frequency_day_mapping ==
    [daily |-> DailyDays, often |-> OftenDays, weekly |-> WeeklyDays,
     biweekly |-> BiweeklyDays, monthly |-> MonthlyDays, adhoc |-> AdhocDays]

\* Mutant: the dormant override is left out.
refresh_interval_class(frequency, is_dormant) == frequency_day_mapping[frequency]

refresh_interval(frequency, is_dormant) ==
    IF is_dormant THEN DormantInterval ELSE frequency_day_mapping[frequency]

\* while next_run < timezone.now(): next_run = next_run + refresh_interval
RECURSIVE advance(_, _, _)
advance(next_run, interval, clock) ==
    IF next_run < clock THEN advance(next_run + interval, interval, clock)
    ELSE next_run

\* The result is [ret, raised]: frequency_day_mapping has no "pending" key and
\* is indexed before dormant is looked at, which raises KeyError.
calculate_next_refresh_time(frequency, is_dormant, last_release, clock) ==
    IF frequency \notin DOMAIN frequency_day_mapping
    THEN [ret |-> <<>>, raised |-> TRUE]
    ELSE LET interval == refresh_interval(frequency, is_dormant)
         IN  [ret |-> <<advance(last_release + interval, interval, clock)>>,
              raised |-> FALSE]

\* A direct call, with any last release date.
CalculateNextRefreshTime ==
    /\ \E last_release \in RefreshReleases :
          LET r == calculate_next_refresh_time(release_frequency, dormant,
                                              last_release, now)
          IN  called' = [op |-> "calculate_next_refresh_time",
                         arg |-> <<last_release>>, ret |-> r.ret,
                         raised |-> r.raised]
    /\ UNCHANGED <<release_datetimes, release_frequency, dormant, title,
                   schedules, now>>
    /\ UNCHANGED <<reconVars, podcastVars>>

(***************************************************************************)
(* Podcast.schedule_next_refresh                                           *)
(***************************************************************************)
frequency_schedule_matching ==
    [daily |-> "D", often |-> "O", weekly |-> "W", biweekly |-> "BW",
     monthly |-> "M", adhoc |-> "O"]

\* Schedule.objects.get_or_create(func=, kwargs=, name=f"{self.title} Refresh"):
\* func and kwargs are the same for every refresh schedule of the podcast.
ScheduleMatches(rows, name) == {r \in rows : r.name = name}

\* Mutant: the class is not looked at.
IsScheduled_any(frequency) == TRUE

\* if self.release_frequency != "pending"
IsScheduled(frequency) == frequency # "pending"

\* The result is [schedules, raised].
ScheduleNextRefresh(rows, name, frequency, is_dormant, bag, arg, clock) ==
    LET last_release == IF arg = <<>> THEN last_release_date(bag) ELSE arg
    IN
    IF last_release = <<>> THEN [schedules |-> rows, raised |-> FALSE]
    ELSE IF ~IsScheduled(frequency) THEN [schedules |-> rows, raised |-> FALSE]
    ELSE
    LET next_run == calculate_next_refresh_time(frequency, is_dormant,
                                                last_release[1], clock)
        m == ScheduleMatches(rows, name)
    IN
    IF next_run.raised \/ Cardinality(m) > 1
    THEN [schedules |-> rows, raised |-> TRUE]
    ELSE LET old == IF m = {}
                    THEN [id |-> <<name, 1>>, name |-> name]
                    ELSE [id |-> (CHOOSE r \in m : TRUE).id, name |-> name]
             row == [id |-> old.id, name |-> name,
                     schedule_type |-> frequency_schedule_matching[frequency],
                     next_run |-> next_run.ret[1]]
         IN  [schedules |-> (rows \ m) \cup {row}, raised |-> FALSE]

schedule_next_refresh ==
    /\ \E arg \in {<<>>} \cup {<<t>> : t \in RefreshReleases} :
          LET r == ScheduleNextRefresh(schedules, title, release_frequency,
                                       dormant, release_datetimes, arg, now)
          IN  /\ schedules' = r.schedules
              /\ called' = [op |-> "schedule_next_refresh", arg |-> arg,
                            ret |-> <<>>, raised |-> r.raised]
    /\ UNCHANGED <<release_datetimes, release_frequency, dormant, title, now>>
    /\ UNCHANGED <<reconVars, podcastVars>>

(***************************************************************************)
(* Text.  A generator string or a URL is a sequence of pieces, cut so that *)
(* every key of the lookup tables is a run of whole pieces; Python's       *)
(* "key in text" is then the search for that run.  A null text is <<>>.    *)
(***************************************************************************)
NoText == <<>>

\* key in text
Contains(key, text) ==
    \E i \in 1..(Len(text) - Len(key) + 1) :
        SubSeq(text, i, i + Len(key) - 1) = key

\* The lookup tables, in the order the dict literals list their items.
KNOWN_GENERATOR_HOST_MAPPING ==
    << <<<<"Fireside (https://fireside.fm)">>, "Fireside.fm">>,
       <<<<"https://", "podbean.com", "/">>, "Podbean">>,
       <<<<"https://simplecast.com">>, "Simplecast">>,
       <<<<"Transistor (https://transistor.fm)">>, "Transistor.fm">>,
       <<<<"acast.com">>, "Acast">>,
       <<<<"Anchor Podcasts">>, "Anchor/Spotify">>,
       <<<<"Pinecast (https://pinecast.com)">>, "Pinecast">> >>

KNOWN_PARTIAL_GENERATOR_HOST_MAPPING ==
    << <<<<"RedCircle">>, "RedCircle">>,
       <<<<"Libsyn">>, "Libsyn">>,
       <<<<"Squarespace">>, "Squarespace">>,
       <<<<"podbean.com">>, "Podbean">> >>

KNOWN_DOMAINS_HOST_MAPPING ==
    << <<<<"buzzsprout.com">>, "Buzzsprout">>,
       <<<<"fireside.fm">>, "Fireside.fm">>,
       <<<<"podbean.com">>, "Podbean">>,
       <<<<"simplecast.com">>, "Simplecast">>,
       <<<<"transistor.fm">>, "Transistor.fm">>,
       <<<<"redcircle.com">>, "RedCircle">>,
       <<<<"acast.com">>, "Acast">>,
       <<<<"pinecast.com">>, "Pinecast">>,
       <<<<"libsyn.com">>, "Libsyn">>,
       <<<<"spreaker.com">>, "Spreaker">>,
       <<<<"soundcloud.com">>, "Soundcloud">>,
       <<<<"anchor.fm">>, "Anchor/Spotify">>,
       <<<<"squarespace.com">>, "Squarespace">>,
       <<<<"blubrry", ".com">>, "Blubrry">> >>

KNOWN_TRACKING_DOMAINS ==
    << <<<<"podtrac">>, "Podtrac">>, <<<<"blubrry">>, "Blubrry">> >>

\* The generator strings and the download URLs of the modelled feeds.
Generators ==
    { NoText,
      <<"Fireside (https://fireside.fm)">>,
      <<"https://", "podbean.com", "/">>,
      <<"https://simplecast.com">>,
      <<"Transistor (https://transistor.fm)">>,
      <<"acast.com">>,
      <<"Anchor Podcasts">>,
      <<"Pinecast (https://pinecast.com)">>,
      <<"Libsyn", " on ", "Squarespace">>,
      <<"WordPress">> }

TrackedUrl ==
    <<"https://dts.", "podtrac", ".com/redirect.mp3/", "buzzsprout.com", "/ep.mp3">>

LibsynUrl == <<"https://traffic.", "libsyn.com", "/ep.mp3">>

\* dict[key], for a key of the dict
Lookup(mapping, key) ==
    mapping[CHOOSE i \in 1..Len(mapping) : mapping[i][1] = key][2]

\* key in list(dict)
IsKey(mapping, key) == \E i \in 1..Len(mapping) : mapping[i][1] = key

\* for key, value in dict.items(): if key in text: result = value
\* (no break: the last matching item wins; default when none matches)
LastMatch(mapping, text, default) ==
    LET hits == {i \in 1..Len(mapping) : Contains(mapping[i][1], text)}
    IN  IF hits = {} THEN default
        ELSE mapping[CHOOSE i \in hits : \A j \in hits : j <= i][2]

\* Mutant: the last matching item wins.
FirstMatch_last(mapping, text) == LastMatch(mapping, text, None)

\* for key, value in dict.items(): if result is None and key in text: result = value
\* (the first matching item wins)
FirstMatch(mapping, text) ==
    LET hits == {i \in 1..Len(mapping) : Contains(mapping[i][1], text)}
    IN  IF hits = {} THEN None
        ELSE mapping[CHOOSE i \in hits : \A j \in hits : i <= j][2]

\* episodes.all()[:10]: the first ten of the episodes' URLs
ScanLimit == 10

Recent(urls) == SubSeq(urls, 1, IF Len(urls) < ScanLimit THEN Len(urls) ELSE ScanLimit)

(***************************************************************************)
(* Podcast.analyze_host                                                    *)
(***************************************************************************)
\* Mutant: the generator is looked up only while no host is stored.
HostFromGenerator_unset(gen, host) ==
    IF host # None THEN host
    ELSE IF gen = NoText THEN host
    ELSE IF IsKey(KNOWN_GENERATOR_HOST_MAPPING, gen)
    THEN Lookup(KNOWN_GENERATOR_HOST_MAPPING, gen)
    ELSE LastMatch(KNOWN_PARTIAL_GENERATOR_HOST_MAPPING, gen, host)

\* if self.generator is not None: exact table, else partial table
HostFromGenerator(gen, host) ==
    IF gen = NoText THEN host
    ELSE IF IsKey(KNOWN_GENERATOR_HOST_MAPPING, gen)
    THEN Lookup(KNOWN_GENERATOR_HOST_MAPPING, gen)
    ELSE LastMatch(KNOWN_PARTIAL_GENERATOR_HOST_MAPPING, gen, host)

\* if self.probable_feed_host is None: the ten most recent episodes' URLs
HostFromEpisodes(urls, host) ==
    IF host # None THEN host
    ELSE LET recent == Recent(urls)
             hits == {i \in 1..Len(recent) :
                         /\ recent[i] # NoText
                         /\ FirstMatch(KNOWN_DOMAINS_HOST_MAPPING, recent[i]) # None}
         IN  IF hits = {} THEN None
             ELSE FirstMatch(KNOWN_DOMAINS_HOST_MAPPING,
                             recent[CHOOSE i \in hits : \A j \in hits : i <= j])

\* The host the call leaves in the row (it saves only a host that is set,
\* and a host that is not set was not changed).
AnalyzeHost(gen, host, urls) == HostFromEpisodes(urls, HostFromGenerator(gen, host))

(***************************************************************************)
(* Podcast.analyze_feed_for_third_party_analytics                          *)
(***************************************************************************)
HasTracker(url) ==
    /\ url # NoText
    /\ \E i \in 1..Len(KNOWN_TRACKING_DOMAINS) :
          Contains(KNOWN_TRACKING_DOMAINS[i][1], url)

\* Mutant: the flag is the result of the scan.
TrackingData_rescan(flag, urls) ==
    \E i \in 1..Len(Recent(urls)) : HasTracker(Recent(urls)[i])

TrackingData(flag, urls) ==
    flag \/ \E i \in 1..Len(Recent(urls)) : HasTracker(Recent(urls)[i])

analyze_host ==
    /\ probable_feed_host' = AnalyzeHost(generator, probable_feed_host, download_urls)
    /\ called' = Called("analyze_host")
    /\ UNCHANGED <<generator, feed_contains_tracking_data, download_urls>>
    /\ UNCHANGED <<reconVars, artVars, fetchVars, groupVars, siteVars, itunesVars>>
    /\ UNCHANGED <<release_datetimes, release_frequency, dormant, title,
                   schedules, now>>

analyze_feed_for_third_party_analytics ==
    /\ feed_contains_tracking_data' =
          TrackingData(feed_contains_tracking_data, download_urls)
    /\ called' = Called("analyze_feed_for_third_party_analytics")
    /\ UNCHANGED <<generator, probable_feed_host, download_urls>>
    /\ UNCHANGED <<reconVars, artVars, fetchVars, groupVars, siteVars, itunesVars>>
    /\ UNCHANGED <<release_datetimes, release_frequency, dormant, title,
                   schedules, now>>

(***************************************************************************)
(* tasks.run_feed_analysis: analyze_feed (analyze_host,                    *)
(* analyze_feed_for_third_party_analytics, set_release_frequency, then     *)
(* set_dormant), then schedule_next_refresh()                              *)
(***************************************************************************)
run_feed_analysis ==
    LET frequency == ReleaseFrequencyOf(release_datetimes)
        is_dormant == DormantOf(release_datetimes, dormant, now)
        r == ScheduleNextRefresh(schedules, title, frequency, is_dormant,
                                 release_datetimes, <<>>, now)
    IN  /\ release_frequency' = frequency
        /\ dormant' = is_dormant
        /\ schedules' = r.schedules
        /\ called' = [op |-> "run_feed_analysis", arg |-> <<>>, ret |-> <<>>,
                      raised |-> r.raised]
        /\ probable_feed_host' =
              AnalyzeHost(generator, probable_feed_host, download_urls)
        /\ feed_contains_tracking_data' =
              TrackingData(feed_contains_tracking_data, download_urls)
        /\ UNCHANGED <<release_datetimes, title, now>>
        /\ UNCHANGED <<generator, download_urls>>
        /\ UNCHANGED <<reconVars, artVars, fetchVars, groupVars, siteVars, itunesVars>>

(***************************************************************************)
(* Podcast.update_podcast_metadata_from_feed_data, for the podcast the     *)
(* pipeline works on.  Of the parsed feed the model keeps the title, the   *)
(* generator, the cover URL, the funding URL, the episode list, and of the *)
(* keys podcastparser adds only when the feed has the element:             *)
(* which of itunes_categories, itunes_author, locked and funding_url are   *)
(* among its keys, and the itunes_categories list.                         *)
(***************************************************************************)
ThePodcast == "p1"

\* The analysis group whose members the model follows.
TheGroup == "group1"

\* A pipeline that is inside no get_or_create.
Idle == [pc |-> "idle"]

\* The functions refresh_feed hands to async_task.
TaskNames == {"fetch_podcast_cover_art", "run_feed_analysis"}

NoJob == [pc |-> "none"]

\* The feed addresses of the podcasts as they were registered.
RegisteredFeed == [p \in Podcasts |-> <<"feed", p>>]

FeedDict(t, g, c, f, eps) ==
    [title |-> t, generator |-> g, cover_url |-> c, funding_url |-> f,
     episodes |-> eps, itunes_categories |-> <<>>,
     keys |-> IF f # None THEN {"funding_url"} ELSE {}]

\* A feed with iTunes or Podcast Index elements.
ItunesFeedDict(elements, cats, f) ==
    [FeedDict("title1", NoText, NoText, f, <<>>)
        EXCEPT !.itunes_categories = cats, !.keys = @ \cup elements]

\* for key in feed_dict.keys(): if "itunes" in key
HasItunesKey(feed_dict) ==
    \E key \in feed_dict.keys : key \in {"itunes_categories", "itunes_author"}

\* if key in ("funding_url", "locked")
HasIndexKey(feed_dict) ==
    \E key \in feed_dict.keys : key \in {"funding_url", "locked"}

\* Mutant: the flag says what this feed contains.
ItunesFlagAfter_rescan(flag, feed_dict) == HasItunesKey(feed_dict)

\* self.feed_contains_itunes_data = True, and nothing sets it False
ItunesFlagAfter(flag, feed_dict) == flag \/ HasItunesKey(feed_dict)

IndexFlagAfter(flag, feed_dict) == flag \/ HasIndexKey(feed_dict)

\* ItunesCategory.objects.get_or_create(name=, parent_category=): the rows
\* matching the lookup.
CategoryMatches(table, name, parent) ==
    {c \in table : c.name = name /\ c.parent_category = parent}

NewCategory(table, name, parent) ==
    [id |-> <<name, parent, Cardinality(CategoryMatches(table, name, parent)) + 1>>,
     name |-> name, parent_category |-> parent]

\* The loop over feed_categories.  acc carries the ItunesCategory table,
\* category_data (the ids of the resolved nodes) and whether get_or_create
\* raised MultipleObjectsReturned.
RECURSIVE ResolveCategories(_, _)
ResolveCategories(acc, feed_categories) ==
    IF feed_categories = <<>> \/ acc.raised THEN acc
    ELSE LET category == Head(feed_categories)
             pm == CategoryMatches(acc.categories, category[1], NullId)
         IN  IF Cardinality(pm) > 1 THEN [acc EXCEPT !.raised = TRUE]
             ELSE
             LET parent == IF pm = {}
                           THEN NewCategory(acc.categories, category[1], NullId)
                           ELSE CHOOSE c \in pm : TRUE
                 table1 == acc.categories \cup {parent}
             IN  IF Len(category) > 1
                 THEN LET cm == CategoryMatches(table1, category[2], parent.id)
                      IN  IF Cardinality(cm) > 1
                          THEN [acc EXCEPT !.categories = table1, !.raised = TRUE]
                          ELSE LET cat == IF cm = {}
                                          THEN NewCategory(table1, category[2],
                                                           parent.id)
                                          ELSE CHOOSE c \in cm : TRUE
                               IN  ResolveCategories(
                                     [categories |-> table1 \cup {cat},
                                      category_data |->
                                          acc.category_data \cup {cat.id},
                                      raised |-> FALSE],
                                     Tail(feed_categories))
                 ELSE ResolveCategories(
                        [categories |-> table1,
                         category_data |-> acc.category_data \cup {parent.id},
                         raised |-> FALSE],
                        Tail(feed_categories))

\* Mutant: the resolved nodes are added to the ones attached before.
AttachedAfter_incremental(attached, category_data) == attached \cup category_data

\* self.itunes_categories.clear(); self.itunes_categories.add(*category_data)
AttachedAfter(attached, category_data) == category_data

\* The iTunes part of the call: the two flags, the podcast's categories and
\* the ItunesCategory table after it, from their values before it.  When
\* get_or_create raises, the rows created so far stay and nothing of the
\* podcast is saved.
ItunesFromFeed(feed_dict, itunes, index, attached, table) ==
    LET unsaved(t, r) ==
            [feed_contains_itunes_data |-> itunes,
             feed_contains_podcast_index_data |-> index,
             itunes_categories |-> attached, categories |-> t, raised |-> r]
        itunes1 == ItunesFlagAfter(itunes, feed_dict)
        index1 == IndexFlagAfter(index, feed_dict)
    IN  IF ~itunes1
        THEN [unsaved(table, FALSE)
                 EXCEPT !.feed_contains_podcast_index_data = index1]
        ELSE LET r == ResolveCategories(
                          [categories |-> table, category_data |-> {},
                           raised |-> FALSE],
                          feed_dict.itunes_categories)
             IN  IF r.raised THEN unsaved(r.categories, TRUE)
                 ELSE [feed_contains_itunes_data |-> itunes1,
                       feed_contains_podcast_index_data |-> index1,
                       itunes_categories |->
                           AttachedAfter(attached, r.category_data),
                       categories |-> r.categories, raised |-> FALSE]

\* Mutant: the flag is raised whenever the feed advertises a cover.
MetadataFromFeed_advertised(feed_dict, cover, needed, donated, clock) ==
    [podcast_cover_art_url |->
         IF feed_dict.cover_url # NoText THEN feed_dict.cover_url ELSE cover,
     podcast_art_cache_update_needed |-> needed \/ feed_dict.cover_url # NoText,
     title |-> feed_dict.title,
     generator |-> feed_dict.generator,
     donation |-> donated \/ feed_dict.funding_url # None,
     last_checked |-> <<clock>>]

\* The fields of the row after the call, from the fields before it.
MetadataFromFeed(feed_dict, cover, needed, donated, clock) ==
    LET changed == feed_dict.cover_url # NoText /\ cover # feed_dict.cover_url
    IN  [podcast_cover_art_url |-> IF changed THEN feed_dict.cover_url ELSE cover,
         podcast_art_cache_update_needed |-> needed \/ changed,
         title |-> feed_dict.title,
         generator |-> feed_dict.generator,
         donation |-> donated \/ feed_dict.funding_url # None,
         last_checked |-> <<clock>>]

\* The fields MetadataFromFeed computes, as they are stored now.
StoredMetadata ==
    [podcast_cover_art_url |-> podcast_cover_art_url,
     podcast_art_cache_update_needed |-> podcast_art_cache_update_needed,
     title |-> title, generator |-> generator,
     donation |-> donation[ThePodcast], last_checked |-> last_checked]

update_podcast_metadata_from_feed_data(feed_dict) ==
    LET itunes == ItunesFromFeed(feed_dict, feed_contains_itunes_data,
                            feed_contains_podcast_index_data,
                            itunes_categories[ThePodcast], categories)
        r == IF itunes.raised THEN StoredMetadata
             ELSE MetadataFromFeed(feed_dict, podcast_cover_art_url,
                                   podcast_art_cache_update_needed,
                                   donation[ThePodcast], now)
    IN  /\ podcast_cover_art_url' = r.podcast_cover_art_url
        /\ podcast_art_cache_update_needed' = r.podcast_art_cache_update_needed
        /\ title' = r.title
        /\ generator' = r.generator
        /\ donation' = [donation EXCEPT ![ThePodcast] = r.donation]
        /\ last_checked' = r.last_checked
        /\ feed_contains_itunes_data' = itunes.feed_contains_itunes_data
        /\ feed_contains_podcast_index_data' = itunes.feed_contains_podcast_index_data
        /\ itunes_categories' =
              [itunes_categories EXCEPT ![ThePodcast] = itunes.itunes_categories]
        /\ categories' = itunes.categories
        /\ called' = [op |-> "update_podcast_metadata_from_feed_data",
                      arg |-> <<feed_dict>>, ret |-> <<>>, raised |-> itunes.raised]
        /\ UNCHANGED <<episodes, seasons, persons, feed, enclosed, last>>
        /\ UNCHANGED <<release_datetimes, release_frequency, dormant, schedules, now>>
        /\ UNCHANGED <<probable_feed_host, feed_contains_tracking_data, download_urls>>
        /\ UNCHANGED <<podcast_cached_cover_art, art_updates, rss_feed, tasks>>
        /\ UNCHANGED <<groupVars, siteVars>>

(***************************************************************************)
(* Cover art.  A URL or a file name is a sequence of pieces in which "/",  *)
(* "?" and "." are pieces of their own.                                    *)
(***************************************************************************)
\* The cover URLs of the modelled feeds: a .jpg, a .png with a query
\* string, and a name with no extension.
ArtUrls ==
    { <<"https:", "/", "/", "example.org", "/", "art", ".", "jpg">>,
      <<"https:", "/", "/", "example.org", "/", "cover", ".", "png", "?", "v=2">>,
      <<"https:", "/", "/", "example.org", "/", "logo">> }

\* What magic.from_buffer makes of the bytes; None when it raises MagicException.
SniffedTypes ==
    {"image/png", "image/jpeg", "image/gif", "image/webp", "text/html", None}

\* The Content-Type header of the response, None when there is none.
ReportedTypes == {"image/jpeg", None}

\* Most rows of ArtUpdate.
MaxArtUpdates == 2

Positions(text, piece) == {i \in 1..Len(text) : text[i] = piece}

Max(S) == CHOOSE i \in S : \A j \in S : j <= i

Min(S) == CHOOSE i \in S : \A j \in S : i <= j

\* filename = cover_art_url.split("/")[-1]; if "?" in filename: split("?")[0]
ArtFilename(cover_art_url) ==
    LET slashes == Positions(cover_art_url, "/")
        last_part == IF slashes = {} THEN cover_art_url
                     ELSE SubSeq(cover_art_url, Max(slashes) + 1, Len(cover_art_url))
        marks == Positions(last_part, "?")
    IN  IF marks = {} THEN last_part ELSE SubSeq(last_part, 1, Min(marks) - 1)

\* utils.update_file_extension_from_mime_type: the file name with its
\* extension made the one of the mime type.
MimeExtension ==
    ("image/png" :> "png") @@ ("image/jpeg" :> "jpg") @@ ("image/gif" :> "gif")
        @@ ("image/webp" :> "webp")

update_file_extension_from_mime_type(mime_type, filename) ==
    LET dots == Positions(filename, ".")
        stem == IF dots = {} THEN filename ELSE SubSeq(filename, 1, Max(dots) - 1)
    IN  stem \o <<".", MimeExtension[mime_type]>>

AllowedArtTypes == {"image/png", "image/jpeg", "image/gif", "image/webp"}

\* update_record.valid_file and update_record.actual_mime_type in [...]
ArtAccepted(reported_mime_type, actual_type) ==
    actual_type # None /\ actual_type \in AllowedArtTypes

\* Mutant: valid_file stays what the successful sniff made it.
NewArtUpdate_sniffed(rows, reported_mime_type, actual_type) ==
    [id |-> Cardinality(rows) + 1, podcast |-> ThePodcast,
     reported_mime_type |-> reported_mime_type,
     actual_mime_type |-> actual_type, valid_file |-> actual_type # None]

\* ArtUpdate(podcast=self, reported_mime_type=...), as the rejecting branch
\* saves it
NewArtUpdate(rows, reported_mime_type, actual_type) ==
    [id |-> Cardinality(rows) + 1, podcast |-> ThePodcast,
     reported_mime_type |-> reported_mime_type,
     actual_mime_type |-> actual_type, valid_file |-> FALSE]

\* Mutant: the flag is left as it is.
ArtNeededAfter_kept(needed) == needed

\* self.podcast_art_cache_update_needed = False
ArtNeededAfter(needed) == FALSE

\* The result is [podcast_cached_cover_art, podcast_art_cache_update_needed,
\* art_updates].  The stored name is the file name under the podcast's
\* directory (upload_to), which the model leaves out.
ProcessCoverArtData(cached, needed, rows, cover_art_url, reported_mime_type, actual_type) ==
    LET filename == ArtFilename(cover_art_url)
    IN  IF ArtAccepted(reported_mime_type, actual_type)
        THEN [podcast_cached_cover_art |->
                  update_file_extension_from_mime_type(actual_type, filename),
              podcast_art_cache_update_needed |-> ArtNeededAfter(needed),
              art_updates |-> rows]
        ELSE [podcast_cached_cover_art |-> cached,
              podcast_art_cache_update_needed |-> needed,
              art_updates |-> rows \cup
                  {NewArtUpdate(rows, reported_mime_type, actual_type)}]

ArtCall(op, cover_art_url, reported_mime_type, actual_type, status, processed) ==
    [op |-> op,
     arg |-> <<[cover_art_url |-> cover_art_url,
                reported_mime_type |-> reported_mime_type,
                actual_type |-> actual_type, status |-> status]>>,
     ret |-> IF processed THEN <<"processed">> ELSE <<>>, raised |-> FALSE]

ArtFrame ==
    /\ UNCHANGED <<podcast_cover_art_url>>
    /\ UNCHANGED <<reconVars, analysisRest, hostVars, fetchVars, groupVars, siteVars, itunesVars>>

process_cover_art_data ==
    /\ Cardinality(art_updates) < MaxArtUpdates
    /\ \E cover_art_url \in ArtUrls, reported_mime_type \in ReportedTypes,
          actual_type \in SniffedTypes :
          LET r == ProcessCoverArtData(podcast_cached_cover_art,
                       podcast_art_cache_update_needed, art_updates,
                       cover_art_url, reported_mime_type, actual_type)
          IN  /\ podcast_cached_cover_art' = r.podcast_cached_cover_art
              /\ podcast_art_cache_update_needed' = r.podcast_art_cache_update_needed
              /\ art_updates' = r.art_updates
              /\ called' = ArtCall("process_cover_art_data", cover_art_url,
                                   reported_mime_type, actual_type, "200", TRUE)
    /\ ArtFrame

\* Podcast.fetch_podcast_cover_art: the answers of the art server are a
\* request error, a status that is not 200, and 200 with a Content-Type
\* header and a body.
ArtStatuses == {"RequestError", "200", "404"}

fetch_podcast_cover_art ==
    /\ Cardinality(art_updates) < MaxArtUpdates
    /\ \E status \in ArtStatuses, reported_mime_type \in ReportedTypes,
          actual_type \in SniffedTypes :
          LET runs == /\ podcast_art_cache_update_needed
                      /\ podcast_cover_art_url # NoText
                      /\ status = "200"
              r == IF runs
                   THEN ProcessCoverArtData(podcast_cached_cover_art,
                            podcast_art_cache_update_needed, art_updates,
                            podcast_cover_art_url, reported_mime_type, actual_type)
                   ELSE [podcast_cached_cover_art |-> podcast_cached_cover_art,
                         podcast_art_cache_update_needed |->
                             podcast_art_cache_update_needed,
                         art_updates |-> art_updates]
          IN  /\ podcast_cached_cover_art' = r.podcast_cached_cover_art
              /\ podcast_art_cache_update_needed' = r.podcast_art_cache_update_needed
              /\ art_updates' = r.art_updates
              /\ called' = ArtCall("fetch_podcast_cover_art", podcast_cover_art_url,
                                   reported_mime_type, actual_type, status, runs)
    /\ ArtFrame

(***************************************************************************)
(* Podcast.get_feed_data and Podcast.refresh_feed                          *)
(***************************************************************************)
\* The addresses a feed is served from.
FeedUrls == {RegisteredFeed["p1"], RegisteredFeed["p2"], <<"feed", "moved">>}

\* The status codes of the redirects followed (r.history) and of the final
\* response.
HopStatuses == {301, 302}

FinalStatuses == {200, 404}

\* Most redirects followed in one fetch.
MaxHops == 2

Histories == UNION {[1..n -> HopStatuses] : n \in 0..MaxHops}

\* The feeds the parser returns.
FetchFeeds ==
    { FeedDict("title1", NoText, NoText, None, <<>>),
      FeedDict("title2", <<"Fireside (https://fireside.fm)">>,
               <<"https:", "/", "/", "example.org", "/", "art", ".", "jpg">>, None,
               <<Item("g1", <<"u1">>, "t1", None, <<>>, None)>>) }

NoFeed == FeedDict("title1", NoText, NoText, None, <<>>)

\* What the network and the parser answer to one fetch of the address url:
\* a request error, or the redirects followed, the final address (another
\* one exactly when a redirect was followed), the final status and, for a
\* 200, whether the content parses and what it parses to.
FetchOutcomes(url) ==
    { o \in [request_error : BOOLEAN, history : Histories, url : FeedUrls,
             status_code : FinalStatuses, parses : BOOLEAN,
             feed_dict : FetchFeeds] :
        /\ (o.history = <<>>) <=> (o.url = url)
        /\ o.request_error =>
              (o.history = <<>> /\ o.status_code = 404 /\ ~o.parses)
        /\ o.status_code # 200 => ~o.parses
        /\ ~o.parses => o.feed_dict = NoFeed }

\* prev_resp = r.history[-1]; prev_resp.status_code == httpx.codes.MOVED_PERMANENTLY
IsPermanentRedirect(history) == history[Len(history)] = 301

\* The result is [rss_feed, error]: the rss_feed column of the Podcast table
\* and the exception that leaves get_feed_data, None when it returns
\* o.feed_dict.  rss_feed is unique: saving an address another podcast has
\* raises IntegrityError.
GetFeedData(feeds, podcast, o) ==
    IF o.request_error \/ o.status_code # 200
    THEN [rss_feed |-> feeds, error |-> "FeedFetchError"]
    ELSE
    LET rewritten == o.url # feeds[podcast] /\ IsPermanentRedirect(o.history)
    IN  IF rewritten /\ \E q \in Podcasts \ {podcast} : feeds[q] = o.url
        THEN [rss_feed |-> feeds, error |-> "IntegrityError"]
        ELSE [rss_feed |-> IF rewritten THEN [feeds EXCEPT ![podcast] = o.url]
                           ELSE feeds,
              error |-> IF o.parses THEN None ELSE "FeedParseError"]

\* Most tasks waiting in the queue.
MaxTasks == 2

\* Mutant: the tasks are enqueued whatever the fetch did.
RefreshTasks_always(queue, needed, failed) ==
    queue \o (IF needed THEN <<"fetch_podcast_cover_art">> ELSE <<>>)
          \o <<"run_feed_analysis">>

\* if self.podcast_art_cache_update_needed: async_task(...); async_task(...)
RefreshTasks(queue, needed, failed) ==
    IF failed THEN queue
    ELSE queue \o (IF needed THEN <<"fetch_podcast_cover_art">> ELSE <<>>)
               \o <<"run_feed_analysis">>

\* The row of the podcast in the Podcast table: the fields Model.save()
\* writes, all of them at every save.
Row ==
    [title |-> title, generator |-> generator,
     rss_feed |-> rss_feed[ThePodcast],
     podcast_cover_art_url |-> podcast_cover_art_url,
     podcast_art_cache_update_needed |-> podcast_art_cache_update_needed,
     podcast_cached_cover_art |-> podcast_cached_cover_art,
     last_checked |-> last_checked,
     release_frequency |-> release_frequency, dormant |-> dormant,
     probable_feed_host |-> probable_feed_host,
     feed_contains_tracking_data |-> feed_contains_tracking_data,
     feed_contains_itunes_data |-> feed_contains_itunes_data,
     feed_contains_podcast_index_data |-> feed_contains_podcast_index_data,
     donation |-> donation[ThePodcast]]

rowVars ==
    <<title, generator, rss_feed, podcast_cover_art_url,
      podcast_art_cache_update_needed, podcast_cached_cover_art, last_checked,
      release_frequency, dormant, probable_feed_host,
      feed_contains_tracking_data, feed_contains_itunes_data,
      feed_contains_podcast_index_data, donation>>

\* instance.save(): the row becomes what the instance holds.
Save(instance) ==
    /\ title' = instance.title
    /\ generator' = instance.generator
    /\ rss_feed' = [rss_feed EXCEPT ![ThePodcast] = instance.rss_feed]
    /\ podcast_cover_art_url' = instance.podcast_cover_art_url
    /\ podcast_art_cache_update_needed' = instance.podcast_art_cache_update_needed
    /\ podcast_cached_cover_art' = instance.podcast_cached_cover_art
    /\ last_checked' = instance.last_checked
    /\ release_frequency' = instance.release_frequency
    /\ dormant' = instance.dormant
    /\ probable_feed_host' = instance.probable_feed_host
    /\ feed_contains_tracking_data' = instance.feed_contains_tracking_data
    /\ feed_contains_itunes_data' = instance.feed_contains_itunes_data
    /\ feed_contains_podcast_index_data' = instance.feed_contains_podcast_index_data
    /\ donation' = [donation EXCEPT ![ThePodcast] = instance.donation]

\* async_task pickles its arguments: the task works on the Podcast instance
\* as it was when refresh_feed enqueued it.  Of the tasks of one function the
\* model follows one at a time, the one enqueued while none was outstanding.
Pickled(packages, instance, needed, failed) ==
    [func \in TaskNames |->
        IF /\ ~failed
           /\ packages[func].pc \in {"none", "done"}
           /\ (func = "fetch_podcast_cover_art" => needed)
        THEN [pc |-> "queued", podcast |-> instance]
        ELSE packages[func]]

refresh_feed ==
    /\ Len(tasks) + 2 <= MaxTasks
    /\ \E o \in FetchOutcomes(rss_feed[ThePodcast]),
          update_existing_episodes \in BOOLEAN :
       LET fetched == GetFeedData(rss_feed, ThePodcast, o)
           caught == fetched.error \in {"FeedFetchError", "FeedParseError"}
           itunes == IF fetched.error # None
                THEN [feed_contains_itunes_data |-> feed_contains_itunes_data,
                      feed_contains_podcast_index_data |->
                          feed_contains_podcast_index_data,
                      itunes_categories |-> itunes_categories[ThePodcast],
                      categories |-> categories, raised |-> FALSE]
                ELSE ItunesFromFeed(o.feed_dict, feed_contains_itunes_data,
                         feed_contains_podcast_index_data,
                         itunes_categories[ThePodcast], categories)
           failed == fetched.error # None \/ itunes.raised
           meta == IF failed THEN StoredMetadata
                   ELSE MetadataFromFeed(o.feed_dict, podcast_cover_art_url,
                            podcast_art_cache_update_needed,
                            donation[ThePodcast], now)
           episode_list == IF failed THEN <<>> ELSE o.feed_dict.episodes
           r == update_episodes_loop(
                    [episodes |-> episodes, seasons |-> seasons,
                     persons |-> persons, donation |-> meta.donation,
                     num_eps_touched |-> 0, raised |-> FALSE],
                    ThePodcast, episode_list, update_existing_episodes)
           raised == (fetched.error # None /\ ~caught) \/ itunes.raised \/ r.raised
       IN  /\ rss_feed' = fetched.rss_feed
           /\ podcast_cover_art_url' = meta.podcast_cover_art_url
           /\ podcast_art_cache_update_needed' = meta.podcast_art_cache_update_needed
           /\ title' = meta.title
           /\ generator' = meta.generator
           /\ last_checked' = meta.last_checked
           /\ feed_contains_itunes_data' = itunes.feed_contains_itunes_data
           /\ feed_contains_podcast_index_data' = itunes.feed_contains_podcast_index_data
           /\ itunes_categories' =
                 [itunes_categories EXCEPT ![ThePodcast] = itunes.itunes_categories]
           /\ categories' = itunes.categories
           /\ episodes' = r.episodes
           /\ seasons' = r.seasons
           /\ persons' = r.persons
           /\ donation' = [donation EXCEPT ![ThePodcast] = r.donation]
           /\ enclosed' = enclosed \cup
                 {<<ThePodcast, episode_list[i].guid>> :
                     i \in {j \in DOMAIN episode_list :
                               Len(episode_list[j].enclosures) > 0}}
           /\ tasks' = RefreshTasks(tasks, meta.podcast_art_cache_update_needed,
                                    failed \/ r.raised)
           /\ jobs' = Pickled(jobs,
                          [Row EXCEPT
                              !.rss_feed = fetched.rss_feed[ThePodcast],
                              !.podcast_cover_art_url = meta.podcast_cover_art_url,
                              !.podcast_art_cache_update_needed =
                                  meta.podcast_art_cache_update_needed,
                              !.title = meta.title,
                              !.generator = meta.generator,
                              !.last_checked = meta.last_checked,
                              !.feed_contains_itunes_data =
                                  itunes.feed_contains_itunes_data,
                              !.feed_contains_podcast_index_data =
                                  itunes.feed_contains_podcast_index_data,
                              !.donation = r.donation],
                          meta.podcast_art_cache_update_needed,
                          failed \/ r.raised)
           /\ called' = [op |-> "refresh_feed",
                         arg |-> <<[outcome |-> o, error |-> fetched.error,
                                    update_existing_episodes |->
                                        update_existing_episodes]>>,
                         ret |-> IF raised THEN <<>> ELSE <<r.num_eps_touched>>,
                         raised |-> raised]
    /\ UNCHANGED <<feed, last>>
    /\ UNCHANGED <<release_datetimes, release_frequency, dormant, schedules, now>>
    /\ UNCHANGED <<probable_feed_host, feed_contains_tracking_data, download_urls>>
    /\ UNCHANGED <<podcast_cached_cover_art, art_updates>>
    /\ UNCHANGED <<groupVars, podcast_table, group_table, pipelines>>

\* The cluster takes the oldest task off the queue to run it.
ClusterTakesTask ==
    /\ tasks # <<>>
    /\ tasks' = Tail(tasks)
    /\ jobs' = [func \in TaskNames |->
                   IF func = Head(tasks) /\ jobs[func].pc = "queued"
                   THEN [jobs[func] EXCEPT !.pc = "taken"]
                   ELSE jobs[func]]
    /\ called' = Called("task")
    /\ UNCHANGED <<rss_feed, last_checked>>
    /\ UNCHANGED <<reconVars, analysisRest, hostVars, artVars, groupVars, itunesVars>>
    /\ UNCHANGED <<podcast_table, group_table, pipelines>>

(***************************************************************************)
(* AnalysisGroup.num_episodes, for one group.  The group's podcasts are    *)
(* named, its seasons and episodes are the ids of their rows.              *)
(***************************************************************************)
RECURSIVE SumOver(_, _, _)
\* for member in members: total += member.episodes.count()
SumOver(members, eps, key) ==
    IF members = {} THEN 0
    ELSE LET member == CHOOSE x \in members : TRUE
         IN  Cardinality({e \in eps : e[key] = member})
                 + SumOver(members \ {member}, eps, key)

num_episodes(eps, podcasts, group_seasons_, group_episodes_) ==
    LET direct == {e \in eps :
                      /\ e.id \in group_episodes_
                      /\ e.podcast \notin podcasts
                      /\ e.season \notin group_seasons_}
    IN  Cardinality(direct)
            + SumOver(podcasts, eps, "podcast")
            + SumOver(group_seasons_, eps, "season")

NumEpisodes ==
    /\ called' = [op |-> "num_episodes", arg |-> <<>>,
                  ret |-> <<num_episodes(episodes, group_podcasts, group_seasons,
                                          group_episodes)>>,
                  raised |-> FALSE]
    /\ UNCHANGED <<reconVars, analysisRest, hostVars, artVars, fetchVars, groupVars, siteVars, itunesVars>>

\* The group is given a podcast, a season or an episode (the analysis_group
\* field of their forms).
GroupGains ==
    /\ \/ /\ \E p \in Podcasts : group_podcasts' = group_podcasts \cup {p}
          /\ UNCHANGED <<group_seasons, group_episodes>>
       \/ /\ \E s \in seasons : group_seasons' = group_seasons \cup {s.id}
          /\ UNCHANGED <<group_podcasts, group_episodes>>
       \/ /\ \E e \in episodes : group_episodes' = group_episodes \cup {e.id}
          /\ UNCHANGED <<group_podcasts, group_seasons>>
    /\ called' = Called("group")
    /\ UNCHANGED <<reconVars, analysisRest, hostVars, artVars, fetchVars>>
    /\ UNCHANGED <<siteVars, itunesVars>>

(***************************************************************************)
(* Views that change what the analysis reads                               *)
(***************************************************************************)
ReleaseFrequency ==
    {"daily", "often", "weekly", "biweekly", "monthly", "adhoc", "pending"}

\* PodcastUpdateView: release_frequency is a field of the edit form.
PodcastUpdateView ==
    /\ \E frequency \in ReleaseFrequency : release_frequency' = frequency
    /\ called' = Called("PodcastUpdateView")
    /\ UNCHANGED <<release_datetimes, dormant, title, schedules, now>>
    /\ UNCHANGED <<reconVars, podcastVars>>

\* EpisodeDeleteView
EpisodeDeleteView ==
    /\ \E t \in DOMAIN release_datetimes :
          /\ release_datetimes[t] > 0
          /\ release_datetimes' = [release_datetimes EXCEPT ![t] = @ - 1]
          /\ \E k \in (Newer(release_datetimes, t) + 1) ..
                        (Newer(release_datetimes, t) + release_datetimes[t]) :
                download_urls' = RemoveAt(download_urls, k)
    /\ called' = Called("EpisodeDeleteView")
    /\ UNCHANGED <<release_frequency, dormant, title, schedules, now>>
    /\ UNCHANGED <<generator, probable_feed_host, feed_contains_tracking_data>>
    /\ UNCHANGED <<reconVars, artVars, fetchVars, groupVars, siteVars, itunesVars>>

\* Time passes.
Tick ==
    /\ \E t \in Instants : t > now /\ now' = t
    /\ called' = Called("tick")
    /\ UNCHANGED <<release_datetimes, release_frequency, dormant, title, schedules>>
    /\ UNCHANGED <<reconVars, podcastVars>>

\* The state of a podcast that was just created and of an empty database.
AnalysisInit ==
    /\ release_datetimes = NoEpisodes
    /\ release_frequency = "pending"
    /\ dormant = FALSE
    /\ title = "title1"
    /\ schedules = {}
    /\ now = 0
    /\ called = Called("init")

PodcastInit ==
    /\ generator = NoText
    /\ probable_feed_host = None
    /\ feed_contains_tracking_data = FALSE
    /\ download_urls = <<>>
    /\ podcast_cover_art_url = NoText
    /\ podcast_art_cache_update_needed = FALSE
    /\ podcast_cached_cover_art = NoText
    /\ art_updates = {}
    /\ rss_feed = RegisteredFeed
    /\ last_checked = <<>>
    /\ tasks = <<>>
    /\ group_podcasts = {}
    /\ group_seasons = {}
    /\ group_episodes = {}
    /\ feed_contains_itunes_data = FALSE
    /\ feed_contains_podcast_index_data = FALSE
    /\ itunes_categories = [p \in Podcasts |-> {}]
    /\ categories = {}

\* The podcasts and the analysis group of the modelled site, no task in the
\* cluster and no pipeline inside a get_or_create.
SiteInit ==
    /\ podcast_table = Podcasts
    /\ group_table = {TheGroup}
    /\ jobs = [func \in TaskNames |-> NoJob]
    /\ pipelines = [p \in Podcasts |-> Idle]

(***************************************************************************)
(* The reconciliation specification: sequential reconciliation runs over   *)
(* any podcasts, any feed item lists and both update modes, starting from  *)
(* an empty database.  The feed is the environment's: between two runs it  *)
(* may gain an item or lose its first one, so every list of at most        *)
(* MaxItems items is served sooner or later.                               *)
(***************************************************************************)
Init ==
    /\ episodes = {}
    /\ seasons = {}
    /\ persons = {}
    /\ donation = [p \in Podcasts |-> FALSE]
    /\ feed = <<>>
    /\ enclosed = {}
    /\ last = [op |-> "init", podcast |-> None,
               update_existing_episodes |-> FALSE, ret |-> 0, raised |-> FALSE,
               again |-> FALSE]
    /\ AnalysisInit
    /\ PodcastInit
    /\ SiteInit

FeedChanged ==
    [op |-> "feed", podcast |-> None, update_existing_episodes |-> FALSE,
     ret |-> 0, raised |-> FALSE, again |-> FALSE]

FeedPublishes ==
    /\ Len(feed) < MaxItems
    /\ \E item \in FeedItems : feed' = Append(feed, item)
    /\ last' = FeedChanged
    /\ UNCHANGED <<episodes, seasons, persons, donation, enclosed>>
    /\ UNCHANGED <<analysisVars, podcastVars>>

FeedDrops ==
    /\ feed # <<>>
    /\ feed' = Tail(feed)
    /\ last' = FeedChanged
    /\ UNCHANGED <<episodes, seasons, persons, donation, enclosed>>
    /\ UNCHANGED <<analysisVars, podcastVars>>

Reconcile ==
    /\ \E podcast \in Podcasts, upd \in BOOLEAN :
           update_episodes_from_feed_data(podcast, feed, upd)
    /\ UNCHANGED feed
    /\ UNCHANGED <<analysisVars, podcastVars>>

Next == FeedPublishes \/ FeedDrops \/ Reconcile

Spec == Init /\ [][Next]_vars

(***************************************************************************)
(* Claims about reconciliation, checked under Spec.                        *)
(***************************************************************************)
\* A step of Reconcile (a step of the feed sets last.op to "feed").
ReconcileStep == last'.op = "update_episodes_from_feed_data"

HasEnclosure(item) == Len(item.enclosures) > 0

\* What one call on `list` would make of the present tables.
CallOn(podcast, list, upd) ==
    update_episodes_loop(
        [episodes |-> episodes, seasons |-> seasons, persons |-> persons,
         donation |-> donation[podcast], num_eps_touched |-> 0, raised |-> FALSE],
        podcast, list, upd)

NoDuplicateEpisode ==
    \A a, b \in episodes : (a.podcast = b.podcast /\ a.guid = b.guid) => a = b

\* C1: calling update_episodes_from_feed_data a second time in succession on
\* the same podcast and the same item list, both times without
\* update_existing_episodes, leaves the Episode rows exactly as the first call
\* left them and returns 0; and no (podcast, guid) ever has two Episode rows.
C1_Idempotent ==
    /\ []NoDuplicateEpisode
    /\ [][(/\ ReconcileStep
           /\ last.op = "update_episodes_from_feed_data"
           /\ last'.podcast = last.podcast
           /\ ~last.update_existing_episodes
           /\ ~last'.update_existing_episodes)
          => (/\ episodes' = episodes
              /\ last'.ret = 0
              /\ ~last'.raised)]_vars

\* C1 witness: the second of two identical calls without update_existing has
\* run over a list holding an item with an enclosure, whose episode exists.
C1_Witness ==
    /\ last.op = "update_episodes_from_feed_data"
    /\ last.again
    /\ ~last.update_existing_episodes
    /\ last.ret = 0
    /\ \E i \in DOMAIN feed :
           /\ HasEnclosure(feed[i])
           /\ EpisodeMatches(episodes, last.podcast, feed[i].guid) # {}

\* C2: an item without enclosures never materializes.  Every Episode has a
\* (podcast, guid) that was reconciled from an item with an enclosure, and a
\* call changes the Episode, Season and Person tables and counts exactly as
\* the same call on the list without its enclosure-less items does.
C2_NoEnclosureNoEpisode ==
    /\ [](\A e \in episodes : <<e.podcast, e.guid>> \in enclosed)
    /\ [][ReconcileStep =>
            LET r == CallOn(last'.podcast, SelectSeq(feed, HasEnclosure),
                            last'.update_existing_episodes)
            IN  /\ episodes' = r.episodes
                /\ seasons' = r.seasons
                /\ persons' = r.persons
                /\ last'.ret = r.num_eps_touched
                /\ (\A i \in DOMAIN feed : ~HasEnclosure(feed[i]))
                      => (/\ episodes' = episodes /\ seasons' = seasons
                          /\ persons' = persons /\ last'.ret = 0)]_vars

\* C2 witness: a call with update_existing has run over a list that mixes an
\* item it touched with an enclosure-less item whose guid has no episode.
C2_Witness ==
    /\ last.op = "update_episodes_from_feed_data"
    /\ last.update_existing_episodes
    /\ last.ret > 0
    /\ \E i \in DOMAIN feed :
           /\ ~HasEnclosure(feed[i])
           /\ feed[i].persons # <<>>
           /\ EpisodeMatches(episodes, last.podcast, feed[i].guid) = {}

\* The host and guest entries of an item (an absent role means host).
HostGuestEntries(item) ==
    {item.persons[i] : i \in {j \in DOMAIN item.persons :
                                 item.persons[j].role \in {None, "host", "guest"}}}

\* The items an Episode row may have been written from last.
WrittenFrom(e) ==
    {item \in FeedItems : /\ HasEnclosure(item)
                          /\ item.guid = e.guid
                          /\ item.title = e.title
                          /\ item.enclosures[1] = e.download_url}

\* C3: there is at most one Person row for each (name, url), url absent
\* included, and every host or guest entry of an item an episode was written
\* from is attached as the Person row of exactly its own (name, url): entries
\* with the same name and different urls are distinct rows.
C3_PersonIdentity ==
    /\ \A a, b \in persons : (a.name = b.name /\ a.url = b.url) => a = b
    /\ \A e \in episodes : \A item \in WrittenFrom(e) :
         \A entry \in HostGuestEntries(item) :
            \E p \in persons :
               /\ p.name = entry.name
               /\ p.url = entry.href
               /\ p.id \in (IF entry.role = "guest" THEN e.guests ELSE e.hosts)

\* C3 witness: the rows (alice, no url) and (alice, href1) both exist, and
\* one Person row is attached to episodes of two podcasts.
C3_Witness ==
    /\ \E a, b \in persons : a.name = b.name /\ a.url = None /\ b.url # None
    /\ \E e, f \in episodes :
          /\ e.podcast # f.podcast
          /\ (e.hosts \cup e.guests) \cap (f.hosts \cup f.guests) # {}

\* C4: without update_existing_episodes a call leaves every Episode row that
\* existed before it exactly as it was (fields, hosts and guests), and its
\* whole effect and count are those of the call on the items whose
\* (podcast, guid) had no Episode; when every item has one, no Season and no
\* Person is created or changed and it returns 0.
C4_StalePreserving ==
    [][(ReconcileStep /\ ~last'.update_existing_episodes) =>
         LET Fresh(item) == EpisodeMatches(episodes, last'.podcast, item.guid) = {}
             r == CallOn(last'.podcast, SelectSeq(feed, Fresh), FALSE)
         IN  /\ episodes \subseteq episodes'
             /\ episodes' = r.episodes
             /\ seasons' = r.seasons
             /\ persons' = r.persons
             /\ last'.ret = r.num_eps_touched
             /\ (\A i \in DOMAIN feed : ~Fresh(feed[i]))
                   => (/\ episodes' = episodes /\ seasons' = seasons
                       /\ persons' = persons /\ last'.ret = 0)]_vars

\* C4 witness: a call without update_existing returned 0 over an item with an
\* enclosure whose episode exists with another title than the item now has.
C4_Witness ==
    /\ last.op = "update_episodes_from_feed_data"
    /\ ~last.update_existing_episodes
    /\ last.ret = 0
    /\ \E i \in DOMAIN feed : \E e \in episodes :
           /\ HasEnclosure(feed[i])
           /\ e.podcast = last.podcast
           /\ e.guid = feed[i].guid
           /\ e.title # feed[i].title
           /\ feed[i].persons # <<>>

\* C5: the call returns the number of list items that have an enclosure and
\* either update_existing_episodes is set or the item created its Episode:
\* no Episode of its (podcast, guid) existed before the call and no earlier
\* item of the list with an enclosure has its guid.
C5_ReturnCount ==
    [][ReconcileStep =>
         LET Counts(i) ==
                 /\ HasEnclosure(feed[i])
                 /\ \/ last'.update_existing_episodes
                    \/ /\ EpisodeMatches(episodes, last'.podcast, feed[i].guid) = {}
                       /\ \A j \in 1..(i - 1) :
                             ~(HasEnclosure(feed[j]) /\ feed[j].guid = feed[i].guid)
         IN  /\ ~last'.raised
             /\ last'.ret = Cardinality({i \in DOMAIN feed : Counts(i)})]_vars

\* C5 witness: a call without update_existing returned 1 over a list in which
\* one guid appears twice, both times with an enclosure.
C5_Witness ==
    /\ last.op = "update_episodes_from_feed_data"
    /\ ~last.update_existing_episodes
    /\ last.ret = 1
    /\ \E i, j \in DOMAIN feed :
           /\ i < j
           /\ feed[i].guid = feed[j].guid
           /\ HasEnclosure(feed[i]) /\ HasEnclosure(feed[j])

(***************************************************************************)
(* The release-frequency specification: episodes released at any of the    *)
(* instants of RelTimes, in any order, and set_release_frequency run at    *)
(* any moment.                                                             *)
(***************************************************************************)
NextFrequency == EpisodeReleased \/ set_release_frequency

SpecFrequency == Init /\ [][NextFrequency]_vars

\* The release gaps, counted without sorting anything: `gap` occurs once for
\* every two instants that far apart with no episode between them, and 0
\* occurs once for every further episode released at the same instant.
GapCount(bag, Holds(_)) ==
    LET used == {t \in DOMAIN bag : bag[t] > 0}
        adjacent == {pair \in used \X used :
                        /\ pair[1] < pair[2]
                        /\ ~\E m \in used : pair[1] < m /\ m < pair[2]}
    IN  Cardinality({pair \in adjacent : Holds(pair[2] - pair[1])})
        + (IF Holds(0) THEN acount(bag) - Cardinality(used) ELSE 0)

\* m is the upper median of the gaps: at most half of them are below it and
\* more than half are at most it.
IsUpperMedianGap(bag, m) ==
    LET n == acount(bag) - 1
        Below(g) == g < m
        AtMost(g) == g <= m
    IN  /\ GapCount(bag, Below) <= n \div 2
        /\ GapCount(bag, AtMost) > n \div 2

\* C6: after set_release_frequency the class is "pending" when the window
\* holds fewer than 5 episodes, whatever their spacing; with 5 or more it is
\* the bucket of the upper median m of the consecutive release gaps: daily
\* if m <= 2 days, often if <= 5, weekly if <= 8, biweekly if <= 15, monthly
\* if <= 33, else adhoc.
C6_ReleaseFrequency ==
    called.op = "set_release_frequency" =>
        IF acount(release_datetimes) < 5
        THEN release_frequency = "pending"
        ELSE \E m \in 0..95 :
                /\ IsUpperMedianGap(release_datetimes, m)
                /\ release_frequency =
                      CASE m <= 2 -> "daily"
                        [] m > 2 /\ m <= 5 -> "often"
                        [] m > 5 /\ m <= 8 -> "weekly"
                        [] m > 8 /\ m <= 15 -> "biweekly"
                        [] m > 15 /\ m <= 33 -> "monthly"
                        [] m > 33 -> "adhoc"

\* C6 witness: five episodes released 7 days apart were classified weekly.
C6_Witness ==
    /\ called.op = "set_release_frequency"
    /\ \A t \in RelTimes :
          release_datetimes[t] = IF t \in {0, 7, 14, 21, 28} THEN 1 ELSE 0
    /\ release_frequency = "weekly"

(***************************************************************************)
(* The refresh specification: one podcast whose episodes come and go,      *)
(* whose class is set by the analysis or by the edit form, analysed and    *)
(* scheduled at any of the instants of Instants.                           *)
(***************************************************************************)
RefreshEpisodeReleased ==
    EpisodeReleasedWithin(RefreshReleases, {PlainUrl}, MaxRefreshEpisodes)

NextRefresh ==
    \/ RefreshEpisodeReleased
    \/ EpisodeDeleteView
    \/ PodcastUpdateView
    \/ Tick
    \/ set_dormant
    \/ CalculateNextRefreshTime
    \/ schedule_next_refresh
    \/ run_feed_analysis

SpecRefresh == Init /\ [][NextRefresh]_vars

\* The release instant of the latest episode is t.
LatestIs(t) ==
    /\ release_datetimes[t] > 0
    /\ \A u \in DOMAIN release_datetimes : release_datetimes[u] > 0 => u <= t

HasNoEpisode == \A t \in DOMAIN release_datetimes : release_datetimes[t] = 0

C8_NextRefreshTime ==
    (called.op = "calculate_next_refresh_time" /\ release_frequency # "pending") =>
        LET T == called.arg[1]
            I == IF dormant THEN 60
                 ELSE CASE release_frequency = "daily" -> 1
                        [] release_frequency = "often" -> 3
                        [] release_frequency = "weekly" -> 7
                        [] release_frequency = "biweekly" -> 14
                        [] release_frequency = "monthly" -> 30
                        [] release_frequency = "adhoc" -> 60
        IN  /\ ~called.raised
            /\ \E k \in 1..100 :
                  /\ called.ret = <<T + k * I>>
                  /\ (k = 1 \/ T + (k - 1) * I < now)
            /\ (release_frequency = "weekly" /\ ~dormant /\ now = T + 20)
                  => called.ret = <<T + 21>>

\* C8 witness: weekly, not dormant, T = 0 and now = 20 days returned 21 days.
C8_Witness ==
    /\ called.op = "calculate_next_refresh_time"
    /\ release_frequency = "weekly" /\ ~dormant
    /\ called.arg = <<0>> /\ now = 20
    /\ called.ret = <<21>>

\* C9: the instant calculate_next_refresh_time returns is strictly later than
\* the current time.
C9_StrictlyFuture ==
    (called.op = "calculate_next_refresh_time" /\ ~called.raised) =>
        called.ret[1] > now

\* C10: schedule_next_refresh, called directly or by run_feed_analysis,
\* leaves the Schedule table as it is and raises nothing when the podcast's
\* class is "pending", dormant or not, and when there is no last release
\* date (none passed and no episode).
C10_PendingNotScheduled ==
    /\ [][(/\ called'.op = "schedule_next_refresh"
           /\ \/ release_frequency = "pending"
              \/ (called'.arg = <<>> /\ HasNoEpisode))
          => (schedules' = schedules /\ ~called'.raised)]_vars
    /\ [][(/\ called'.op = "run_feed_analysis"
           /\ (release_frequency' = "pending" \/ HasNoEpisode))
          => (schedules' = schedules /\ ~called'.raised)]_vars

\* C10 witness: schedule_next_refresh was called with a release date on a
\* dormant podcast of class "pending" that has a Schedule from earlier.
C10_Witness ==
    /\ called.op = "schedule_next_refresh"
    /\ called.arg # <<>>
    /\ release_frequency = "pending"
    /\ dormant
    /\ schedules # {}
    /\ ~called.raised

(***************************************************************************)
(* The cycle specification: refreshes that store episodes released a week  *)
(* apart or together and that take the title the feed carries, each        *)
(* followed sooner or later by the analysis task, at any of the instants.  *)
(***************************************************************************)
Titles == {"title1", "title2"}

CycleReleases == {0, 7, 14}

MaxCycleEpisodes == 5

CycleEpisodeReleased ==
    EpisodeReleasedWithin(CycleReleases, {PlainUrl}, MaxCycleEpisodes)

CycleMetadata ==
    \E t \in Titles :
        update_podcast_metadata_from_feed_data(FeedDict(t, NoText, NoText, None, <<>>))

NextCycle ==
    \/ CycleEpisodeReleased
    \/ CycleMetadata
    \/ Tick
    \/ run_feed_analysis

SpecCycle == Init /\ [][NextCycle]_vars

\* C11: after any sequence of refresh and analysis cycles, also ones in
\* which the feed changed the title or the release frequency, there is at
\* most one refresh Schedule of the podcast, and after a cycle that computed
\* a next run the Schedule carries that next run and the schedule type of
\* the podcast's class.
C11_OneSchedule ==
    /\ [](Cardinality(schedules) <= 1)
    /\ [][(/\ called'.op = "run_feed_analysis"
           /\ release_frequency' # "pending"
           /\ ~HasNoEpisode)
          => \A r \in schedules' :
                /\ r.schedule_type = frequency_schedule_matching[release_frequency']
                /\ <<r.next_run>> =
                      calculate_next_refresh_time(
                          release_frequency', dormant',
                          last_release_date(release_datetimes)[1], now).ret]_vars

(***************************************************************************)
(* The cover art specification: refreshes whose feed advertises any of the *)
(* cover URLs, the cover art task with any answer of the art server, and   *)
(* direct calls of the processor.                                          *)
(***************************************************************************)
ArtMetadata ==
    \E c \in ArtUrls \cup {NoText} :
        update_podcast_metadata_from_feed_data(FeedDict("title1", NoText, c, None, <<>>))

NextArt ==
    \/ ArtMetadata
    \/ fetch_podcast_cover_art
    \/ process_cover_art_data

SpecArt == Init /\ [][NextArt]_vars

\* The step ran process_cover_art_data (directly or from the fetch).
ArtProcessed ==
    /\ called'.op \in {"process_cover_art_data", "fetch_podcast_cover_art"}
    /\ called'.ret = <<"processed">>

JpgUrl == <<"https:", "/", "/", "example.org", "/", "art", ".", "jpg">>

\* C12: when the sniffed type is image/png, image/jpeg, image/gif or
\* image/webp, process_cover_art_data stores the file under the URL's file
\* name with the extension of the sniffed type, whatever the URL's extension
\* and the reported type (PNG bytes at a .jpg URL are stored as .png), and
\* sets podcast_art_cache_update_needed to false.
C12_ArtAccepted ==
    [][(/\ ArtProcessed
        /\ called'.arg[1].actual_type \in
               {"image/png", "image/jpeg", "image/gif", "image/webp"})
       => LET a == called'.arg[1]
              name == podcast_cached_cover_art'
          IN  /\ Len(name) >= 3
              /\ name[Len(name) - 1] = "."
              /\ name[Len(name)] \in
                    (CASE a.actual_type = "image/png" -> {"png"}
                       [] a.actual_type = "image/jpeg" -> {"jpg", "jpeg"}
                       [] a.actual_type = "image/gif" -> {"gif"}
                       [] a.actual_type = "image/webp" -> {"webp"})
              /\ \A i \in 1..Len(name) : name[i] \notin {"/", "?"}
              /\ \E i \in 1..Len(a.cover_art_url) : a.cover_art_url[i] = name[1]
              /\ (a.cover_art_url = JpgUrl /\ a.actual_type = "image/png")
                    => name = <<"art", ".", "png">>
              /\ ~podcast_art_cache_update_needed'
              /\ art_updates' = art_updates]_vars

\* C12 witness: the cover art task fetched PNG bytes from the .jpg URL,
\* reported as image/jpeg; they are stored as art.png and the flag is down.
C12_Witness ==
    /\ called.op = "fetch_podcast_cover_art"
    /\ called.ret = <<"processed">>
    /\ called.arg[1].cover_art_url = JpgUrl
    /\ called.arg[1].actual_type = "image/png"
    /\ called.arg[1].reported_mime_type = "image/jpeg"
    /\ podcast_cached_cover_art = <<"art", ".", "png">>
    /\ ~podcast_art_cache_update_needed

\* C13: when sniffing fails or the sniffed type is none of the four image
\* types, whatever type the server reported, process_cover_art_data saves
\* exactly one ArtUpdate row, with valid_file false, and leaves the cached
\* art and podcast_art_cache_update_needed as they were.
C13_ArtRejected ==
    [][(/\ ArtProcessed
        /\ called'.arg[1].actual_type \notin
               {"image/png", "image/jpeg", "image/gif", "image/webp"})
       => /\ art_updates \subseteq art_updates'
          /\ Cardinality(art_updates' \ art_updates) = 1
          /\ \A r \in art_updates' \ art_updates :
                /\ ~r.valid_file
                /\ r.reported_mime_type = called'.arg[1].reported_mime_type
                /\ r.actual_mime_type = called'.arg[1].actual_type
          /\ podcast_cached_cover_art' = podcast_cached_cover_art
          /\ podcast_art_cache_update_needed' = podcast_art_cache_update_needed]_vars

\* C13 witness: the cover art task fetched an HTML page reported as
\* image/jpeg while art was cached; one invalid row, the flag still set.
C13_Witness ==
    /\ called.op = "fetch_podcast_cover_art"
    /\ called.ret = <<"processed">>
    /\ called.arg[1].actual_type = "text/html"
    /\ called.arg[1].reported_mime_type = "image/jpeg"
    /\ podcast_art_cache_update_needed
    /\ podcast_cached_cover_art # NoText
    /\ \E r \in art_updates : ~r.valid_file /\ r.actual_mime_type = "text/html"

\* C14: every call of process_cover_art_data, accepted or rejected, adds one
\* ArtUpdate row with the reported type, the sniffed type and the validity.
C14_AuditEveryAttempt ==
    [][ArtProcessed
       => /\ Cardinality(art_updates' \ art_updates) = 1
          /\ \A r \in art_updates' \ art_updates :
                /\ r.reported_mime_type = called'.arg[1].reported_mime_type
                /\ r.actual_mime_type = called'.arg[1].actual_type
                /\ r.valid_file = (called'.arg[1].actual_type \in
                       {"image/png", "image/jpeg", "image/gif", "image/webp"})]_vars

(***************************************************************************)
(* The host specification: refreshes whose feed names any of the           *)
(* generators and stores episodes with any of the download URLs, episodes  *)
(* deleted, and the host analysis run at any point.                        *)
(***************************************************************************)
MaxHostEpisodes == 2

HostMetadata ==
    \E g \in Generators :
        update_podcast_metadata_from_feed_data(FeedDict("title1", g, NoText, None, <<>>))

HostEpisodeReleased ==
    EpisodeReleasedWithin(RefreshReleases, {PlainUrl, LibsynUrl, TrackedUrl},
                          MaxHostEpisodes)

NextHost ==
    \/ HostMetadata
    \/ HostEpisodeReleased
    \/ EpisodeDeleteView
    \/ analyze_host

SpecHost == Init /\ [][NextHost]_vars

\* C15: after analyze_host on a podcast whose generator is a key of the
\* exact-match table, probable_feed_host is that key's value, whatever the
\* podcast's episodes and whatever host was stored before.
C15_HostByGenerator ==
    called.op = "analyze_host" =>
        /\ generator = <<"Fireside (https://fireside.fm)">>
              => probable_feed_host = "Fireside.fm"
        /\ generator = <<"https://", "podbean.com", "/">>
              => probable_feed_host = "Podbean"
        /\ generator = <<"https://simplecast.com">>
              => probable_feed_host = "Simplecast"
        /\ generator = <<"Transistor (https://transistor.fm)">>
              => probable_feed_host = "Transistor.fm"
        /\ generator = <<"acast.com">> => probable_feed_host = "Acast"
        /\ generator = <<"Anchor Podcasts">> => probable_feed_host = "Anchor/Spotify"
        /\ generator = <<"Pinecast (https://pinecast.com)">>
              => probable_feed_host = "Pinecast"

\* C15 witness: analyze_host ran on a podcast generated by Fireside whose
\* only episode is downloaded from libsyn.com; the host is Fireside.fm.
C15_Witness ==
    /\ called.op = "analyze_host"
    /\ generator = <<"Fireside (https://fireside.fm)">>
    /\ download_urls = <<LibsynUrl>>
    /\ probable_feed_host = "Fireside.fm"

(***************************************************************************)
(* The tracking specification: refreshes that store episodes with or       *)
(* without a tracking prefix in their URL, refreshes with                  *)
(* update_existing_episodes that rewrite the URL of a stored episode,      *)
(* refreshes that save the podcast's metadata, and the tracking analysis   *)
(* run alone or within the analysis task, in any order.                    *)
(***************************************************************************)
MaxTrackingEpisodes == 11

\* The episodes of this specification are released at one instant, so that
\* their order, which decides the ten that are scanned, is any.
TrackingReleases == {0}

TrackingEpisodeReleased ==
    EpisodeReleasedWithin(TrackingReleases, {PlainUrl, TrackedUrl}, MaxTrackingEpisodes)

\* ep.download_url = enclosure["url"], on an episode that exists
EpisodeUrlUpdated ==
    /\ \E k \in 1..Len(download_urls), url \in {PlainUrl, TrackedUrl} :
          /\ download_urls[k] # url
          /\ download_urls' = [download_urls EXCEPT ![k] = url]
    /\ called' = Called("episode")
    /\ UNCHANGED <<generator, probable_feed_host, feed_contains_tracking_data>>
    /\ UNCHANGED <<reconVars, analysisRest, artVars, fetchVars, groupVars, siteVars, itunesVars>>

TrackingMetadata ==
    update_podcast_metadata_from_feed_data(FeedDict("title1", NoText, NoText, None, <<>>))

NextTracking ==
    \/ TrackingEpisodeReleased
    \/ EpisodeUrlUpdated
    \/ TrackingMetadata
    \/ analyze_feed_for_third_party_analytics
    \/ run_feed_analysis

SpecTracking == Init /\ [][NextTracking]_vars

\* A URL among the first ten of the podcast's episodes, most recent first,
\* contains "podtrac" or "blubrry".
MarkerScanned ==
    \E i \in 1..Len(download_urls) :
        /\ i <= 10
        /\ \E j \in 1..Len(download_urls[i]) :
              download_urls[i][j] \in {"podtrac", "blubrry"}

NextFetch ==
    \/ refresh_feed
    \/ ClusterTakesTask

SpecFetch == Init /\ [][NextFetch]_vars

\* C17: after get_feed_data, rss_feed is the final URL when the fetch
\* succeeded through a chain of 301 redirects, and it is unchanged when
\* there was no redirect and whenever the chain contains a redirect that is
\* not a 301, wherever in the chain.
C17_OnlyPermanentRedirect ==
    [][called'.op = "refresh_feed"
       => LET o == called'.arg[1].outcome
              all_permanent == /\ o.history # <<>>
                               /\ \A i \in 1..Len(o.history) : o.history[i] = 301
          IN  /\ (called'.arg[1].error = None /\ all_permanent)
                    => rss_feed'[ThePodcast] = o.url
              /\ ~all_permanent => rss_feed' = rss_feed]_vars

\* C18: when get_feed_data fails with FeedFetchError or FeedParseError,
\* refresh_feed returns 0 and raises nothing, leaves the channel metadata
\* and last_checked as they were, creates and updates no Episode (nor
\* Season nor Person), and enqueues no task.
C18_FailedFetchNoEffect ==
    [][(/\ called'.op = "refresh_feed"
        /\ called'.arg[1].error \in {"FeedFetchError", "FeedParseError"})
       => /\ called'.ret = <<0>>
          /\ ~called'.raised
          /\ title' = title
          /\ generator' = generator
          /\ podcast_cover_art_url' = podcast_cover_art_url
          /\ podcast_art_cache_update_needed' = podcast_art_cache_update_needed
          /\ donation' = donation
          /\ last_checked' = last_checked
          /\ episodes' = episodes
          /\ seasons' = seasons
          /\ persons' = persons
          /\ tasks' = tasks]_vars

\* C18 witness: a refresh whose feed did not parse returned 0 on a podcast
\* that an earlier refresh had filled in and whose art is still to fetch.
C18_Witness ==
    /\ called.op = "refresh_feed"
    /\ called.arg[1].error = "FeedParseError"
    /\ called.ret = <<0>>
    /\ title = "title2"
    /\ last_checked # <<>>
    /\ podcast_art_cache_update_needed
    /\ episodes # {}
    /\ tasks = <<>>

\* C19: whatever the network answers, get_feed_data returns the parsed feed
\* or raises FeedFetchError or FeedParseError, so refresh_feed never raises.
C19_OnlyTwoErrors ==
    called.op = "refresh_feed" =>
        /\ called.arg[1].error \in {None, "FeedFetchError", "FeedParseError"}
        /\ ~called.raised

(***************************************************************************)
(* The group specification: reconciliation stores episodes of two podcasts *)
(* with and without a season, the group gains podcasts, seasons and        *)
(* episodes in any order, and num_episodes is read at any point.           *)
(***************************************************************************)
GroupItems ==
    { Item("g1", <<"u1">>, "t1", None, <<>>, None),
      Item("g1", <<"u1">>, "t1", "s1", <<>>, None),
      Item("g2", <<"u1">>, "t1", "s1", <<>>, None) }

GroupReconcile ==
    /\ \E podcast \in Podcasts, item \in GroupItems :
           update_episodes_from_feed_data(podcast, <<item>>, TRUE)
    /\ called' = Called("update_episodes_from_feed_data")
    /\ UNCHANGED feed
    /\ UNCHANGED <<analysisRest, podcastVars>>

NextGroup ==
    \/ GroupReconcile
    \/ GroupGains
    \/ NumEpisodes

SpecGroup == Init /\ [][NextGroup]_vars

\* C20: num_episodes is the number of distinct episodes that are members of
\* the group, belong to a member podcast or belong to a member season.
C20_NoDoubleCounting ==
    called.op = "num_episodes" =>
        called.ret =
            <<Cardinality({e \in episodes :
                              \/ e.id \in group_episodes
                              \/ e.podcast \in group_podcasts
                              \/ e.season \in group_seasons})>>

(***************************************************************************)
(* The views (views.py).  A request names the view class its URL routes    *)
(* to, its method and whether its user is authenticated.  A view that      *)
(* inherits LoginRequiredMixin answers a request of an unauthenticated     *)
(* user from dispatch(), before any handler runs, with a redirect to the   *)
(* login page.  Authenticated POSTs carry valid forms; the receivers of    *)
(* the model signals other than the one of a created Podcast are left out. *)
(***************************************************************************)
ReadViews ==
    {"PodcastListView", "PodcastDetailView", "PersonListView", "PersonDetailView",
     "EpisodeListView", "EpisodeDetailView", "AnalysisGroupListView",
     "AnalysisGroupDetailView"}

WriteViews ==
    {"PodcastCreateView", "PodcastUpdateView", "PodcastDeleteView",
     "PersonUpdateView", "PersonDeleteView", "EpisodeUpdateView",
     "EpisodeDeleteView", "AnalysisGroupUpdateView", "AnalysisGroupCreateView",
     "AnalysisGroupDeleteView"}

Views == ReadViews \cup WriteViews

\* Mutant: the views that delete are open.
LoginRequired_edits(view) ==
    view \notin {"PodcastDeleteView", "PersonDeleteView", "EpisodeDeleteView",
                 "AnalysisGroupDeleteView"}

\* class ...(LoginRequiredMixin, ...): every view class has the mixin first.
LoginRequired(view) == view \in Views

LoginRedirect == [status_code |-> 302, location |-> "accounts/login/"]

Response(code, location) == [status_code |-> code, location |-> location]

Answer(view, method, authenticated, response) ==
    [op |-> "request",
     arg |-> <<[view |-> view, method |-> method,
                authenticated |-> authenticated]>>,
     ret |-> <<response>>, raised |-> FALSE]

\* The names an AnalysisGroup is created with.
GroupNames == {"group1", "group2"}

\* The image URLs and titles the edit forms are posted with.
FormImages == {"img3"}

FormTitles == {"title2"}

\* Everything a view can write.
viewState ==
    <<episodes, seasons, persons, podcast_table, group_table, group_podcasts,
      group_seasons, group_episodes, title, release_frequency, rss_feed,
      itunes_categories, tasks>>

\* Podcast.delete(): the rows that reference the podcast go with it
\* (on_delete=CASCADE, and the rows of the many-to-many tables).
PodcastDeleted(p) ==
    LET gone_seasons == {x.id : x \in {y \in seasons : y.podcast = p}}
        gone_episodes == {x.id : x \in {y \in episodes : y.podcast = p}}
    IN  /\ podcast_table' = podcast_table \ {p}
        /\ episodes' = {e \in episodes : e.podcast # p}
        /\ seasons' = {x \in seasons : x.podcast # p}
        /\ group_podcasts' = group_podcasts \ {p}
        /\ group_seasons' = group_seasons \ gone_seasons
        /\ group_episodes' = group_episodes \ gone_episodes
        /\ itunes_categories' = [itunes_categories EXCEPT ![p] = {}]
        /\ UNCHANGED <<persons, group_table, title, release_frequency, rss_feed,
                       tasks>>

\* The form_valid of the view that was posted to.
FormValid(view) ==
    \/ /\ view = "PodcastCreateView"
       /\ Len(tasks) < MaxTasks
       /\ \E p \in Podcasts \ podcast_table :
             /\ \A q \in podcast_table : rss_feed[q] # RegisteredFeed[p]
             /\ podcast_table' = podcast_table \cup {p}
             /\ rss_feed' = [rss_feed EXCEPT ![p] = RegisteredFeed[p]]
       /\ tasks' = Append(tasks, "async_refresh_feed")
       /\ UNCHANGED <<episodes, seasons, persons, group_table, group_podcasts,
                      group_seasons, group_episodes, title, release_frequency,
                      itunes_categories>>
    \/ /\ view = "PodcastUpdateView"
       /\ ThePodcast \in podcast_table
       /\ \E t \in FormTitles : title' = t
       /\ UNCHANGED <<episodes, seasons, persons, podcast_table, group_table,
                      group_podcasts, group_seasons, group_episodes,
                      release_frequency, rss_feed, itunes_categories, tasks>>
    \/ /\ view = "PodcastDeleteView"
       /\ \E p \in podcast_table : PodcastDeleted(p)
    \/ /\ view = "PersonUpdateView"
       /\ \E x \in persons, img \in FormImages :
             /\ persons' = (persons \ {x}) \cup {[x EXCEPT !.img_url = img]}
       /\ UNCHANGED <<episodes, seasons, podcast_table, group_table,
                      group_podcasts, group_seasons, group_episodes, title,
                      release_frequency, rss_feed, itunes_categories, tasks>>
    \/ /\ view = "PersonDeleteView"
       /\ \E x \in persons :
             /\ persons' = persons \ {x}
             /\ episodes' = {[e EXCEPT !.hosts = @ \ {x.id}, !.guests = @ \ {x.id}] :
                                e \in episodes}
       /\ UNCHANGED <<seasons, podcast_table, group_table, group_podcasts,
                      group_seasons, group_episodes, title, release_frequency,
                      rss_feed, itunes_categories, tasks>>
    \/ /\ view = "EpisodeUpdateView"
       /\ \E e \in episodes, t \in {"t2"} :
             episodes' = (episodes \ {e}) \cup {[e EXCEPT !.title = t]}
       /\ UNCHANGED <<seasons, persons, podcast_table, group_table,
                      group_podcasts, group_seasons, group_episodes, title,
                      release_frequency, rss_feed, itunes_categories, tasks>>
    \/ /\ view = "EpisodeDeleteView"
       /\ \E e \in episodes :
             /\ episodes' = episodes \ {e}
             /\ group_episodes' = group_episodes \ {e.id}
       /\ UNCHANGED <<seasons, persons, podcast_table, group_table,
                      group_podcasts, group_seasons, title, release_frequency,
                      rss_feed, itunes_categories, tasks>>
    \/ /\ view = "AnalysisGroupUpdateView"
       /\ TheGroup \in group_table
       /\ \E members \in SUBSET podcast_table : group_podcasts' = members
       /\ group_seasons' = {}
       /\ group_episodes' = {}
       /\ UNCHANGED <<episodes, seasons, persons, podcast_table, group_table,
                      title, release_frequency, rss_feed, itunes_categories, tasks>>
    \/ /\ view = "AnalysisGroupCreateView"
       /\ \E name \in GroupNames \ group_table :
             /\ group_table' = group_table \cup {name}
             /\ IF name = TheGroup
                THEN /\ \E members \in SUBSET podcast_table :
                           group_podcasts' = members
                     /\ group_seasons' = {}
                     /\ group_episodes' = {}
                ELSE UNCHANGED <<group_podcasts, group_seasons, group_episodes>>
       /\ UNCHANGED <<episodes, seasons, persons, podcast_table, title,
                      release_frequency, rss_feed, itunes_categories, tasks>>
    \/ /\ view = "AnalysisGroupDeleteView"
       /\ \E name \in group_table :
             /\ group_table' = group_table \ {name}
             /\ IF name = TheGroup
                THEN /\ group_podcasts' = {}
                     /\ group_seasons' = {}
                     /\ group_episodes' = {}
                ELSE UNCHANGED <<group_podcasts, group_seasons, group_episodes>>
       /\ UNCHANGED <<episodes, seasons, persons, podcast_table, title,
                      release_frequency, rss_feed, itunes_categories, tasks>>

\* View.dispatch, with LoginRequiredMixin.dispatch in front of it.
Request ==
    /\ \E view \in Views, method \in {"GET", "POST"}, authenticated \in BOOLEAN :
          IF LoginRequired(view) /\ ~authenticated
          THEN /\ called' = Answer(view, method, authenticated, LoginRedirect)
               /\ UNCHANGED viewState
          ELSE IF method = "GET"
          THEN /\ called' = Answer(view, method, authenticated, Response(200, None))
               /\ UNCHANGED viewState
          ELSE IF view \in ReadViews
          THEN /\ called' = Answer(view, method, authenticated, Response(405, None))
               /\ UNCHANGED viewState
          ELSE /\ called' = Answer(view, method, authenticated,
                                   Response(302, "success_url"))
               /\ FormValid(view)
    /\ UNCHANGED <<donation, feed, enclosed, last>>
    /\ UNCHANGED <<release_datetimes, dormant, schedules, now>>
    /\ UNCHANGED <<hostVars, artVars, last_checked, jobs, pipelines>>
    /\ UNCHANGED <<feed_contains_itunes_data, feed_contains_podcast_index_data,
                   categories>>

(***************************************************************************)
(* The site specification: reconciliation stores an episode with a host    *)
(* for one podcast, and requests of authenticated and unauthenticated      *)
(* users reach every view.                                                 *)
(***************************************************************************)
SiteItems ==
    { Item("g1", <<"u1">>, "t1", "s1",
           <<PersonEntry("alice", None, None, "host")>>, None) }

SiteReconcile ==
    /\ ThePodcast \in podcast_table
    /\ \E item \in SiteItems :
           update_episodes_from_feed_data(ThePodcast, <<item>>, TRUE)
    /\ called' = Called("update_episodes_from_feed_data")
    /\ UNCHANGED feed
    /\ UNCHANGED <<analysisRest, podcastVars>>

NextSite ==
    \/ SiteReconcile
    \/ Request

SpecSite == Init /\ [][NextSite]_vars

\* C21: every podcast, person, episode and analysis-group view answers an
\* unauthenticated GET or POST with a redirect to the login page, and an
\* unauthenticated request leaves the Podcast, Person, Episode and
\* AnalysisGroup rows and all their fields as they were.
C21_UnauthenticatedNoEffect ==
    [][(called'.op = "request" /\ ~called'.arg[1].authenticated)
       => /\ called'.ret[1].status_code = 302
          /\ called'.ret[1].location = "accounts/login/"
          /\ podcast_table' = podcast_table
          /\ title' = title
          /\ rss_feed' = rss_feed
          /\ release_frequency' = release_frequency
          /\ itunes_categories' = itunes_categories
          /\ persons' = persons
          /\ episodes' = episodes
          /\ seasons' = seasons
          /\ group_table' = group_table
          /\ group_podcasts' = group_podcasts
          /\ group_seasons' = group_seasons
          /\ group_episodes' = group_episodes]_vars

\* C21 witness: an unauthenticated POST to the podcast delete view was
\* redirected to the login page on a site that has episodes, a person and a
\* group with a member, after an authenticated user had deleted a podcast.
C21_Witness ==
    /\ called.op = "request"
    /\ ~called.arg[1].authenticated
    /\ called.arg[1].method = "POST"
    /\ called.arg[1].view = "PodcastDeleteView"
    /\ called.ret = <<LoginRedirect>>
    /\ podcast_table = {ThePodcast}
    /\ episodes # {}
    /\ persons # {}
    /\ group_podcasts # {}

(***************************************************************************)
(* Merging Person records.  Migration 0006 gives Person the nullable       *)
(* merged_into reference; the operation that merges is the one the         *)
(* specification describes: the merged record keeps its id and carries a   *)
(* forward reference to the record it was merged into.                     *)
(***************************************************************************)
\* PersonMergeForm: the queryset both choices are drawn from, the records
\* that are merged into no other.
MergeChoices(ps) == {x \in ps : x.merged_into = NullId}

\* PersonMergeForm.clean: a record is not merged into itself.
MergeFormValid(source, destination) == source # destination

Merged(source, destination) == [source EXCEPT !.merged_into = destination.id]

MergePerson ==
    /\ \E source \in MergeChoices(persons), destination \in MergeChoices(persons) :
          /\ MergeFormValid(source, destination)
          /\ persons' = (persons \ {source}) \cup {Merged(source, destination)}
          /\ called' = [op |-> "merge", arg |-> <<source, destination>>,
                        ret |-> <<>>, raised |-> FALSE]
    /\ last' = [FeedChanged EXCEPT !.op = "merge"]
    /\ UNCHANGED <<episodes, seasons, donation, feed, enclosed>>
    /\ UNCHANGED <<analysisRest, podcastVars>>

(***************************************************************************)
(* The merge specification: reconciliation of two podcasts sights alice    *)
(* and bob as hosts and guests of several episodes, and records are merged *)
(* between the runs.                                                       *)
(***************************************************************************)
MergeItems ==
    { Item("g1", <<"u1">>, "t1", None,
           <<PersonEntry("alice", None, None, "host")>>, None),
      Item("g2", <<"u1">>, "t1", None,
           <<PersonEntry("alice", None, None, "guest"),
             PersonEntry("bob", None, None, "host")>>, None) }

MergeReconcile ==
    /\ \E podcast \in Podcasts, item \in MergeItems, upd \in BOOLEAN :
           update_episodes_from_feed_data(podcast, <<item>>, upd)
    /\ called' = Called("update_episodes_from_feed_data")
    /\ UNCHANGED feed
    /\ UNCHANGED <<analysisRest, podcastVars>>

NextMerge ==
    \/ MergeReconcile
    \/ MergePerson

SpecMerge == Init /\ [][NextMerge]_vars

\* The episodes' (after the step) that person x is attached to and was not
\* before the step.
NewlyAttached(x) ==
    {e \in episodes' :
        /\ x.id \in e.hosts \cup e.guests
        /\ ~\E old \in episodes :
               old.id = e.id /\ x.id \in old.hosts \cup old.guests}

\* C22: once a Person has been merged into another, no later reconciliation
\* attaches the merged record as host or guest of an episode, and only
\* persons that are not merged are the source or the destination of a merge.
C22_MergedExcluded ==
    /\ [][ReconcileStep =>
            \A x \in persons : x.merged_into # NullId => NewlyAttached(x) = {}]_vars
    /\ [][called'.op = "merge" =>
            /\ called'.arg[1] \in persons /\ called'.arg[1].merged_into = NullId
            /\ called'.arg[2] \in persons /\ called'.arg[2].merged_into = NullId]_vars

(***************************************************************************)
(* The tasks of tasks.py as the cluster runs them: each on the pickled     *)
(* instance it was handed, reading the episodes from the database and      *)
(* writing the whole row at every save.  The cover art task saves once;    *)
(* the analysis task saves after each of its four analyses and schedules   *)
(* last.  Steps of the two tasks interleave as the workers take them.      *)
(***************************************************************************)
TaskCall(func, step) ==
    [op |-> func, arg |-> <<step>>, ret |-> <<>>, raised |-> FALSE]

\* tasks.fetch_podcast_cover_art -> Podcast.afetch_podcast_cover_art
task_fetch_podcast_cover_art ==
    LET job == jobs["fetch_podcast_cover_art"] IN
    /\ job.pc = "taken"
    /\ Cardinality(art_updates) < MaxArtUpdates
    /\ \E status \in ArtStatuses, reported_mime_type \in ReportedTypes,
          actual_type \in SniffedTypes :
          LET self == job.podcast
              runs == /\ self.podcast_art_cache_update_needed
                      /\ self.podcast_cover_art_url # NoText
                      /\ status = "200"
              accepted == runs /\ ArtAccepted(reported_mime_type, actual_type)
              r == ProcessCoverArtData(self.podcast_cached_cover_art,
                       self.podcast_art_cache_update_needed, art_updates,
                       self.podcast_cover_art_url, reported_mime_type, actual_type)
              saved == [self EXCEPT
                           !.podcast_cached_cover_art = r.podcast_cached_cover_art,
                           !.podcast_art_cache_update_needed =
                               r.podcast_art_cache_update_needed]
          IN  /\ IF accepted THEN Save(saved) ELSE UNCHANGED rowVars
              /\ art_updates' = IF runs THEN r.art_updates ELSE art_updates
              /\ jobs' = [jobs EXCEPT !["fetch_podcast_cover_art"] =
                             [pc |-> "done",
                              podcast |-> IF accepted THEN saved ELSE self,
                              accepted |-> accepted]]
    /\ called' = TaskCall("fetch_podcast_cover_art", "done")
    /\ UNCHANGED <<episodes, seasons, persons, feed, enclosed, last>>
    /\ UNCHANGED <<release_datetimes, schedules, now, download_urls>>
    /\ UNCHANGED <<tasks, groupVars, podcast_table, group_table, pipelines>>
    /\ UNCHANGED <<itunes_categories, categories>>

\* The steps of tasks.run_feed_analysis, in the order analyze_feed makes them.
AnalysisSteps ==
    <<"analyze_host", "analyze_feed_for_third_party_analytics",
      "set_release_frequency", "set_dormant", "schedule_next_refresh">>

\* The instance after the step, and whether the step saves it.
AnalysisStep(step, self) ==
    CASE step = "analyze_host" ->
           LET host == AnalyzeHost(self.generator, self.probable_feed_host,
                                   download_urls)
           IN  [podcast |-> [self EXCEPT !.probable_feed_host = host],
                saves |-> host # None]
      [] step = "analyze_feed_for_third_party_analytics" ->
           [podcast |-> [self EXCEPT !.feed_contains_tracking_data =
                            TrackingData(self.feed_contains_tracking_data,
                                         download_urls)],
            saves |-> TRUE]
      [] step = "set_release_frequency" ->
           [podcast |-> [self EXCEPT !.release_frequency =
                            ReleaseFrequencyOf(release_datetimes)],
            saves |-> TRUE]
      [] step = "set_dormant" ->
           [podcast |-> [self EXCEPT !.dormant =
                            DormantOf(release_datetimes, self.dormant, now)],
            saves |-> last_release_date(release_datetimes) # <<>>]
      [] step = "schedule_next_refresh" ->
           [podcast |-> self, saves |-> FALSE]

\* tasks.run_feed_analysis, one step of it
task_run_feed_analysis ==
    LET job == jobs["run_feed_analysis"] IN
    /\ job.pc \in {"taken", "running"}
    /\ LET k == IF job.pc = "taken" THEN 1 ELSE job.step
           step == AnalysisSteps[k]
           r == AnalysisStep(step, job.podcast)
           scheduled == ScheduleNextRefresh(schedules, job.podcast.title,
                            job.podcast.release_frequency, job.podcast.dormant,
                            release_datetimes, <<>>, now)
       IN  /\ IF r.saves THEN Save(r.podcast) ELSE UNCHANGED rowVars
           /\ schedules' = IF step = "schedule_next_refresh"
                           THEN scheduled.schedules ELSE schedules
           /\ jobs' = [jobs EXCEPT !["run_feed_analysis"] =
                          [pc |-> IF k = Len(AnalysisSteps) THEN "done"
                                  ELSE "running",
                           podcast |-> r.podcast, step |-> k + 1]]
           /\ called' = [TaskCall("run_feed_analysis", step)
                            EXCEPT !.raised = (step = "schedule_next_refresh"
                                               /\ scheduled.raised)]
    /\ UNCHANGED <<episodes, seasons, persons, feed, enclosed, last>>
    /\ UNCHANGED <<release_datetimes, now, download_urls, art_updates>>
    /\ UNCHANGED <<tasks, groupVars, podcast_table, group_table, pipelines>>
    /\ UNCHANGED <<itunes_categories, categories>>

(***************************************************************************)
(* The pipeline specification: an episode is stored, refreshes run until   *)
(* one of them enqueues its tasks, the cluster takes the tasks and its     *)
(* workers run them.                                                       *)
(***************************************************************************)
MaxPipelineEpisodes == 1

PipelineEpisodeReleased ==
    EpisodeReleasedWithin(TrackingReleases, {TrackedUrl}, MaxPipelineEpisodes)

PipelineRefresh ==
    /\ \A func \in TaskNames : jobs[func].pc = "none"
    /\ refresh_feed

NextPipeline ==
    \/ PipelineEpisodeReleased
    \/ PipelineRefresh
    \/ ClusterTakesTask
    \/ task_fetch_podcast_cover_art
    \/ task_run_feed_analysis

SpecPipeline == Init /\ [][NextPipeline]_vars

\* C23: when the cover art task and the analysis task that one refresh
\* enqueued have both finished, the art fetch having been valid,
\* podcast_art_cache_update_needed is false, the cached art is the new file,
\* and release_frequency, dormant, probable_feed_host and the tracking flag
\* are the values the analysis computed.
C23_NoLostUpdate ==
    (/\ called.op \in TaskNames
     /\ jobs["fetch_podcast_cover_art"].pc = "done"
     /\ jobs["fetch_podcast_cover_art"].accepted
     /\ jobs["run_feed_analysis"].pc = "done")
    => /\ ~podcast_art_cache_update_needed
       /\ podcast_cached_cover_art =
              jobs["fetch_podcast_cover_art"].podcast.podcast_cached_cover_art
       /\ release_frequency = jobs["run_feed_analysis"].podcast.release_frequency
       /\ dormant = jobs["run_feed_analysis"].podcast.dormant
       /\ probable_feed_host = jobs["run_feed_analysis"].podcast.probable_feed_host
       /\ feed_contains_tracking_data =
              jobs["run_feed_analysis"].podcast.feed_contains_tracking_data

(***************************************************************************)
(* get_or_create on the shared tables, as the pipelines of two podcasts    *)
(* run it side by side.  QuerySet.get_or_create is a get() followed, when  *)
(* no row is found, by a create(); Person and ItunesCategory have no       *)
(* unique constraint, so the create() of a pipeline inserts its row        *)
(* whatever another pipeline inserted since the get().  A pipeline is      *)
(* followed from the get() that finds no row to the end of its call.       *)
(***************************************************************************)
RaceItem ==
    Item("g1", <<"u1">>, "t1", None,
         <<PersonEntry("alice", None, "img1", "host")>>, None)

RaceFeed == ItunesFeedDict({"itunes_categories"}, <<<<"Technology">>>>, None)

Completed(podcast) ==
    [op |-> "update_episodes_from_feed_data", podcast |-> podcast,
     update_existing_episodes |-> TRUE, ret |-> 1, raised |-> FALSE,
     again |-> FALSE]

\* create_or_update_episode_from_feed up to Person.objects.get(), which
\* finds no row.
PersonSighted(podcast) ==
    LET entry == RaceItem.persons[1]
        em == EpisodeMatches(episodes, podcast, RaceItem.guid)
    IN  /\ pipelines[podcast] = Idle
        /\ PersonMatches(persons, entry.name, entry.href) = {}
        /\ Cardinality(em) <= 1
        /\ episodes' = IF em = {}
                       THEN episodes \cup {NewEpisode(episodes, podcast, RaceItem.guid)}
                       ELSE episodes
        /\ enclosed' = enclosed \cup {<<podcast, RaceItem.guid>>}
        /\ pipelines' = [pipelines EXCEPT ![podcast] =
                            [pc |-> "create_person", item |-> RaceItem]]
        /\ last' = [FeedChanged EXCEPT !.op = "get"]
        /\ called' = Called("get_or_create")
        /\ UNCHANGED <<seasons, persons, donation, feed>>
        /\ UNCHANGED <<analysisRest, hostVars, artVars, fetchVars, groupVars>>
        /\ UNCHANGED <<podcast_table, group_table, jobs, itunesVars>>

\* Person.objects.create() and the rest of the call.
PersonCreated(podcast) ==
    /\ pipelines[podcast].pc = "create_person"
    /\ LET item == pipelines[podcast].item
           entry == item.persons[1]
           got == NewPerson(persons, entry.name, entry.href)
           persona == IF entry.img # None THEN [got EXCEPT !.img_url = entry.img]
                      ELSE got
           ep == CHOOSE e \in EpisodeMatches(episodes, podcast, item.guid) : TRUE
       IN  /\ persons' = persons \cup {persona}
           /\ episodes' = (episodes \ {ep}) \cup
                 {[ep EXCEPT !.hosts = @ \cup {persona.id},
                             !.title = item.title,
                             !.download_url = item.enclosures[1]]}
    /\ pipelines' = [pipelines EXCEPT ![podcast] = Idle]
    /\ last' = Completed(podcast)
    /\ called' = Called("update_episodes_from_feed_data")
    /\ UNCHANGED <<seasons, donation, feed, enclosed>>
    /\ UNCHANGED <<analysisRest, hostVars, artVars, fetchVars, groupVars>>
    /\ UNCHANGED <<podcast_table, group_table, jobs, itunesVars>>

\* update_podcast_metadata_from_feed_data up to ItunesCategory.objects.get(),
\* which finds no row.
CategorySighted(podcast) ==
    /\ pipelines[podcast] = Idle
    /\ CategoryMatches(categories, RaceFeed.itunes_categories[1][1], NullId) = {}
    /\ pipelines' = [pipelines EXCEPT ![podcast] =
                        [pc |-> "create_category", feed_dict |-> RaceFeed]]
    /\ called' = Called("get_or_create")
    /\ UNCHANGED <<reconVars, analysisRest, hostVars, artVars, fetchVars, groupVars>>
    /\ UNCHANGED <<podcast_table, group_table, jobs, itunesVars>>

\* ItunesCategory.objects.create() and the rest of the call; the fields of
\* the row are followed for the one podcast.
CategoryCreated(podcast) ==
    /\ pipelines[podcast].pc = "create_category"
    /\ LET feed_dict == pipelines[podcast].feed_dict
           parent == NewCategory(categories, feed_dict.itunes_categories[1][1],
                                 NullId)
           r == IF podcast = ThePodcast
                THEN MetadataFromFeed(feed_dict, podcast_cover_art_url,
                                      podcast_art_cache_update_needed,
                                      donation[ThePodcast], now)
                ELSE StoredMetadata
       IN  /\ categories' = categories \cup {parent}
           /\ itunes_categories' =
                 [itunes_categories EXCEPT ![podcast] = AttachedAfter(@, {parent.id})]
           /\ feed_contains_itunes_data' =
                 IF podcast = ThePodcast
                 THEN ItunesFlagAfter(feed_contains_itunes_data, feed_dict)
                 ELSE feed_contains_itunes_data
           /\ feed_contains_podcast_index_data' =
                 IF podcast = ThePodcast
                 THEN IndexFlagAfter(feed_contains_podcast_index_data, feed_dict)
                 ELSE feed_contains_podcast_index_data
           /\ podcast_cover_art_url' = r.podcast_cover_art_url
           /\ podcast_art_cache_update_needed' = r.podcast_art_cache_update_needed
           /\ title' = r.title
           /\ generator' = r.generator
           /\ donation' = [donation EXCEPT ![ThePodcast] = r.donation]
           /\ last_checked' = r.last_checked
           /\ called' = IF podcast = ThePodcast
                         THEN [op |-> "update_podcast_metadata_from_feed_data",
                               arg |-> <<feed_dict>>, ret |-> <<>>,
                               raised |-> FALSE]
                         ELSE Called("create")
    /\ pipelines' = [pipelines EXCEPT ![podcast] = Idle]
    /\ UNCHANGED <<episodes, seasons, persons, feed, enclosed, last>>
    /\ UNCHANGED <<release_datetimes, release_frequency, dormant, schedules, now>>
    /\ UNCHANGED <<probable_feed_host, feed_contains_tracking_data, download_urls>>
    /\ UNCHANGED <<podcast_cached_cover_art, art_updates, rss_feed, tasks>>
    /\ UNCHANGED <<groupVars, podcast_table, group_table, jobs>>

(***************************************************************************)
(* The race specification: the pipelines of two podcasts sight the same    *)
(* person and the same category, inside get_or_create or in whole calls.   *)
(***************************************************************************)
RaceReconcile ==
    /\ \E podcast \in Podcasts :
          /\ pipelines[podcast] = Idle
          /\ update_episodes_from_feed_data(podcast, <<RaceItem>>, TRUE)
    /\ called' = Called("update_episodes_from_feed_data")
    /\ UNCHANGED feed
    /\ UNCHANGED <<analysisRest, podcastVars>>

RaceMetadata ==
    /\ pipelines[ThePodcast] = Idle
    /\ update_podcast_metadata_from_feed_data(RaceFeed)

NextRace ==
    \/ \E podcast \in Podcasts : PersonSighted(podcast)
    \/ \E podcast \in Podcasts : PersonCreated(podcast)
    \/ \E podcast \in Podcasts : CategorySighted(podcast)
    \/ \E podcast \in Podcasts : CategoryCreated(podcast)
    \/ RaceReconcile
    \/ RaceMetadata

SpecRace == Init /\ [][NextRace]_vars

\* C24: when two pipelines concurrently sight the same not-yet-stored person
\* or category, both reconciliations complete, and every later
\* reconciliation that sights that key completes and attaches a record,
\* also when the race left two rows with that key.
C24_RaceSafe ==
    /\ last.op = "update_episodes_from_feed_data" =>
          /\ ~last.raised
          /\ \E e \in EpisodeMatches(episodes, last.podcast, RaceItem.guid) :
                \E x \in persons :
                   x.name = "alice" /\ x.url = None /\ x.id \in e.hosts
    /\ called.op = "update_podcast_metadata_from_feed_data" =>
          /\ ~called.raised
          /\ \E c \in categories :
                c.name = "Technology" /\ c.id \in itunes_categories[ThePodcast]

(***************************************************************************)
(* The needs-art-refresh flag of the Podcast row over the pipeline.        *)
(***************************************************************************)
\* The step reconciled the metadata, in a refresh or in a direct call.
MetadataReconciled ==
    \/ called'.op = "refresh_feed" /\ called'.arg[1].error = None
    \/ called'.op = "update_podcast_metadata_from_feed_data" /\ ~called'.raised

\* The cover URL of the feed the step reconciled.
AdvertisedCover ==
    IF called'.op = "refresh_feed" THEN called'.arg[1].outcome.feed_dict.cover_url
    ELSE called'.arg[1].cover_url

\* The step ran process_cover_art_data on a valid image, in a direct call,
\* from fetch_podcast_cover_art or in the cover art task.
ArtAcceptedStep ==
    \/ /\ ArtProcessed
       /\ called'.arg[1].actual_type \in AllowedArtTypes
    \/ /\ jobs["fetch_podcast_cover_art"].pc = "taken"
       /\ jobs'["fetch_podcast_cover_art"].pc = "done"
       /\ jobs'["fetch_podcast_cover_art"].accepted

(***************************************************************************)
(* The art lifecycle specification: metadata reconciliation, the cover art *)
(* fetch, the processor and the analysis, each a whole call on the stored  *)
(* row.                                                                    *)
(***************************************************************************)
NextLifecycle ==
    \/ ArtMetadata
    \/ fetch_podcast_cover_art
    \/ process_cover_art_data
    \/ run_feed_analysis

SpecLifecycle == Init /\ [][NextLifecycle]_vars

CategoryLists ==
    { <<>>,
      <<<<"Technology">>>>,
      <<<<"Technology", "Podcasting">>>>,
      <<<<"Arts">>, <<"Technology", "Podcasting">>>> }

ItunesFeeds ==
    {feed_dict \in
        {ItunesFeedDict(elements, cats, f) :
            elements \in SUBSET {"itunes_categories", "itunes_author", "locked"},
            cats \in CategoryLists, f \in {None, "pay1"}} :
        feed_dict.itunes_categories # <<>>
            => "itunes_categories" \in feed_dict.keys}

ItunesMetadata ==
    \E feed_dict \in ItunesFeeds : update_podcast_metadata_from_feed_data(feed_dict)

NextItunes == ItunesMetadata \/ run_feed_analysis

SpecItunes == Init /\ [][NextItunes]_vars

\* The nodes of the table that the entry of a feed's list names: the child
\* under the named parent for a two-element entry, the parent node for a
\* one-element entry.
NodesNamed(table, category) ==
    IF Len(category) > 1
    THEN {c \in table :
            /\ c.name = category[2]
            /\ \E parent \in table :
                  /\ parent.id = c.parent_category
                  /\ parent.name = category[1]
                  /\ parent.parent_category = NullId}
    ELSE {c \in table : c.name = category[1] /\ c.parent_category = NullId}

\* The list the call read: feed_dict.get("itunes_categories", [])
ListedCategories(feed_dict) ==
    feed_dict.itunes_categories

\* C26: after each metadata reconciliation of a podcast whose iTunes-data
\* flag is set, the podcast's itunes_categories is exactly the set resolved
\* from that feed's itunes_categories list (the child node for a two-element
\* entry, the parent node for a one-element entry); categories attached by
\* earlier runs and no longer listed are removed.
C26_CategoriesReplaced ==
    (/\ called.op = "update_podcast_metadata_from_feed_data"
     /\ ~called.raised
     /\ feed_contains_itunes_data)
    => LET listed == ListedCategories(called.arg[1])
       IN  /\ \A i \in DOMAIN listed :
                 Cardinality(NodesNamed(categories, listed[i])) = 1
           /\ {c.id : c \in categories} \cap itunes_categories[ThePodcast] =
                 itunes_categories[ThePodcast]
           /\ itunes_categories[ThePodcast] =
                 {c.id : c \in UNION {NodesNamed(categories, listed[i]) :
                                         i \in DOMAIN listed}}

\* C26 witness: a feed that lists the parent Technology alone was reconciled
\* after one that listed Arts and the child Podcasting; only Technology is
\* attached.
C26_Witness ==
    /\ called.op = "update_podcast_metadata_from_feed_data"
    /\ called.arg[1].itunes_categories = <<<<"Technology">>>>
    /\ \E c \in categories : c.name = "Arts"
    /\ \E c \in categories : c.name = "Podcasting"
    /\ Cardinality(itunes_categories[ThePodcast]) = 1
    /\ \A c \in categories :
          c.id \in itunes_categories[ThePodcast] =>
             c.name = "Technology" /\ c.parent_category = NullId

(***************************************************************************)
(* The domain scan specification: a podcast whose generator resolves no    *)
(* host gains episodes, more than the scan reads, a few of them downloaded *)
(* from a known host, and the host analysis runs at any point.             *)
(***************************************************************************)
MaxScanEpisodes == 11

\* Most episodes whose URL names a known host.
MaxHosted == 2

FiresideUrl == <<"https://media.", "fireside.fm", "/ep.mp3">>

\* A URL that names two domains of the table, the later entry first.
AnchorLibsynUrl == <<"https://", "anchor.fm", "/play/traffic.", "libsyn.com", "/ep.mp3">>

UnknownGenerators == {NoText, <<"WordPress">>}

ScanEpisodeReleased ==
    /\ EpisodeReleasedWithin(TrackingReleases,
                             {PlainUrl, FiresideUrl, AnchorLibsynUrl},
                             MaxScanEpisodes)
    /\ Cardinality({i \in DOMAIN download_urls' : download_urls'[i] # PlainUrl})
          <= MaxHosted

ScanMetadata ==
    \E g \in UnknownGenerators :
        update_podcast_metadata_from_feed_data(FeedDict("title1", g, NoText, None, <<>>))

NextScan ==
    \/ ScanMetadata
    \/ ScanEpisodeReleased
    \/ analyze_host

SpecScan == Init /\ [][NextScan]_vars

\* The entries of the domain table found in the URL, by their place in the
\* table.
DomainsFound(url) ==
    {k \in 1..Len(KNOWN_DOMAINS_HOST_MAPPING) :
        Contains(KNOWN_DOMAINS_HOST_MAPPING[k][1], url)}

\* C27: when no generator rule resolves a host and probable_feed_host is
\* unset, analyze_host looks only at the 10 most recent episodes and sets the
\* host to the first domain-table entry found, scanning the episodes from the
\* most recent to the oldest; a host that is stored is not changed by the
\* domain scan, and when nothing matches the host stays unset.
C27_DomainScan ==
    [][(called'.op = "analyze_host" /\ generator \in UnknownGenerators)
       => IF probable_feed_host # None
          THEN probable_feed_host' = probable_feed_host
          ELSE LET scanned == {i \in DOMAIN download_urls : i <= 10}
                   matching == {i \in scanned : DomainsFound(download_urls[i]) # {}}
               IN  IF matching = {}
                   THEN probable_feed_host' = None
                   ELSE probable_feed_host' =
                           KNOWN_DOMAINS_HOST_MAPPING[
                               Min(DomainsFound(download_urls[Min(matching)]))][2]]_vars

\* C27 witness: of eleven episodes the oldest is downloaded from
\* fireside.fm and the tenth from a URL that names anchor.fm before
\* libsyn.com; the analysis found Libsyn.
C27_Witness ==
    /\ called.op = "analyze_host"
    /\ generator = <<"WordPress">>
    /\ Len(download_urls) = 11
    /\ download_urls[11] = FiresideUrl
    /\ download_urls[10] = AnchorLibsynUrl
    /\ \A i \in 1..9 : download_urls[i] = PlainUrl
    /\ probable_feed_host = "Libsyn"

(***************************************************************************)
(* The person specification: reconciliations of any podcast, in both       *)
(* update modes, whose items sight one person with no image or with one of *)
(* two images, as host, as guest or in a role that is not attached.        *)
(***************************************************************************)
PersonItems ==
    {Item("g1", <<"u1">>, "t1", None, <<PersonEntry("alice", None, i, r)>>, None) :
        i \in {None, "img1", "img2"}, r \in {"host", "guest", "producer"}}

\* The lists of one item, and the lists of two items that sight the person
\* as host with two different images.
PersonLists ==
    {<<item>> : item \in PersonItems}
        \cup {list \in {<<a, b>> : a \in PersonItems, b \in PersonItems} :
                 /\ \A i \in 1..2 : /\ list[i].persons[1].role = "host"
                                     /\ list[i].persons[1].img # None
                 /\ list[1] # list[2]}

PersonReconcile ==
    /\ \E podcast \in Podcasts, episode_list \in PersonLists, upd \in BOOLEAN :
          /\ update_episodes_from_feed_data(podcast, episode_list, upd)
          /\ called' = [op |-> "update_episodes_from_feed_data",
                        arg |-> <<episode_list>>, ret |-> <<>>, raised |-> FALSE]
    /\ UNCHANGED feed
    /\ UNCHANGED <<analysisRest, podcastVars>>

\* An episode of some podcast is deleted (EpisodeDeleteView); the persons
\* attached to it stay.
PersonEpisodeDeleted ==
    /\ \E e \in episodes : episodes' = episodes \ {e}
    /\ last' = [FeedChanged EXCEPT !.op = "delete"]
    /\ called' = Called("delete")
    /\ UNCHANGED <<seasons, persons, donation, feed, enclosed>>
    /\ UNCHANGED <<analysisRest, podcastVars>>

NextPerson == PersonReconcile \/ PersonEpisodeDeleted

SpecPerson == Init /\ [][NextPerson]_vars

\* The images that the entries of the list supply for the person, in the
\* order of the list, from the entries with a role that is attached.
ImagesSighted(episode_list, x) ==
    SelectSeq([i \in DOMAIN episode_list |-> episode_list[i].persons[1]],
              LAMBDA entry : /\ entry.name = x.name
                             /\ entry.href = x.url
                             /\ entry.role \in {"host", "guest"}
                             /\ entry.img # None)

\* C28: reconciliation sets a Person's img_url only when it is null and the
\* sighted entry supplies an image, and no later reconciliation, with or
\* without update_existing and whatever image it sights for the same
\* (name, url), changes an img_url that is not null.
C28_ImgUrlOnce ==
    [][/\ \A x \in persons :
             x.img_url # None =>
                \E y \in persons' : y.id = x.id /\ y.img_url = x.img_url
       /\ \A y \in persons' :
             (/\ y.img_url # None
              /\ ~\E x \in persons : x.id = y.id /\ x.img_url # None)
             => /\ ReconcileStep
                /\ LET sighted == ImagesSighted(called'.arg[1], y)
                   IN  /\ \E i \in DOMAIN sighted : sighted[i].img = y.img_url
                       /\ last'.update_existing_episodes
                             => sighted[1].img = y.img_url]_vars

\* C28 witness: a reconciliation with update_existing sighted the person
\* with the image img2; her img_url is still img1.
C28_Witness ==
    /\ last.op = "update_episodes_from_feed_data"
    /\ last.update_existing_episodes
    /\ called.op = "update_episodes_from_feed_data"
    /\ Len(called.arg[1]) = 1
    /\ called.arg[1][1].persons[1].img = "img2"
    /\ called.arg[1][1].persons[1].role = "host"
    /\ \E x \in persons : x.name = "alice" /\ x.url = None /\ x.img_url = "img1"

(***************************************************************************)
(* Seasons, checked under Spec.                                            *)
(***************************************************************************)
\* C29: after any sequence of reconciliations over any podcasts, every
\* Episode that has a season has a season of the episode's own podcast (two
\* podcasts claiming the same season number get different Season rows), and
\* reconciliation never creates a second Season for a (podcast,
\* season_number) that already exists.
C29_SeasonsPerPodcast ==
    /\ \A e \in episodes :
          e.season # NullId =>
             \E s \in seasons : s.id = e.season /\ s.podcast = e.podcast
    /\ \A s \in seasons, t \in seasons :
          (s.podcast = t.podcast /\ s.season_number = t.season_number) => s = t
    /\ \A s \in seasons, t \in seasons : s.id = t.id => s = t

\* C29 witness: both podcasts have an episode in their season s1, and the
\* two seasons are different rows.
C29_Witness ==
    \E e \in episodes, f \in episodes :
       /\ e.podcast = "p1" /\ f.podcast = "p2"
       /\ e.season # NullId /\ f.season # NullId
       /\ e.season # f.season
       /\ \E s \in seasons, t \in seasons :
             /\ s.id = e.season /\ t.id = f.season
             /\ s.season_number = "s1" /\ t.season_number = "s1"
             /\ s.podcast = "p1" /\ t.podcast = "p2"

(***************************************************************************)
(* The flags specification: metadata reconciliations of feeds with and     *)
(* without iTunes, Podcast Index and funding elements, episode             *)
(* reconciliations of items with and without a payment URL, and the        *)
(* analysis, in any order.                                                 *)
(***************************************************************************)
FlagItems ==
    {Item("g1", <<"u1">>, "t1", None, <<>>, pay) : pay \in {None, "pay1"}}

FlagsReconcile ==
    /\ \E podcast \in Podcasts, item \in FlagItems, upd \in BOOLEAN :
           update_episodes_from_feed_data(podcast, <<item>>, upd)
    /\ called' = Called("update_episodes_from_feed_data")
    /\ UNCHANGED feed
    /\ UNCHANGED <<analysisRest, podcastVars>>

NextFlags ==
    \/ ItunesMetadata
    \/ FlagsReconcile
    \/ run_feed_analysis

SpecFlags == Init /\ [][NextFlags]_vars

====
